---- MODULE Spec2Model ----
(***************************************************************************)
(* Flip 7 round engine (Deck, Player, Game of src/unnamed/part_000 and     *)
(* part_001) as a state machine.                                           *)
(*                                                                         *)
(* The engine is one chain of async functions.  Its position is kept in    *)
(*   rpc    where Game.start / playRound / initialDeal stands, and         *)
(*   stack  the applyCardToPlayer calls in progress (the last one runs),   *)
(* and one action is the code between two suspension points of that chain: *)
(* a call of applyCardToPlayer, its return, or the answer to an ask.       *)
(*                                                                         *)
(* Cards are records [type, value].  The draw pile is a short sequence     *)
(* (DeckLen cards at Init) instead of the 94 cards of Deck.build, and a    *)
(* behaviour starts either right after construction or at the top of the   *)
(* hit/stay loop of a round in progress, with hands of up to six numbers.  *)
(*                                                                         *)
(* DeckSpec runs Deck.build, Deck.shuffle, Game.drawCard and Game.discard  *)
(* on their own, on every pair of small piles; AllSpec is both together.   *)
(***************************************************************************)
EXTENDS Integers, Sequences, FiniteSets, TLC

\* ------------------------------------------------------------------ bounds
\* Length of the draw pile in the initial states.
DeckLen == 2
\* Cards drawn in a behaviour before the model stops drawing.
MaxDraws == 5

\* Longest draw pile and discard pile of the initial states of DeckSpec.
MaxPile == 3
\* The longest draw pile the advisor is asked about on its own.
AdviceDeckLen == 5

\* ------------------------------------------------------- program constants
\* net/server.js starts every game with this many players (index.js: 2..10).
EXPECTED_PLAYERS == 2
\* Number of distinct numbers that makes a Flip 7.
Flip7Count == 7
\* Bonus of the Flip 7 winner.
Flip7Bonus == 15
\* Total that ends the game.
WinScore == 200
\* Cards a FlipThree target has to take.
FlipThreeDraws == 3
\* Default stay threshold of the auto mode.
DefaultAutoTarget == 4
\* The modifier value "x2" of Card; the other modifier values are 2,4,..,10.
X2 == 0
\* Highest number card; Deck.build makes v cards of each value v up to it.
MaxNumber == 12
\* Cards of each action.
ActionCopies == 3

Players == 1..EXPECTED_PLAYERS
\* null where the code holds a player or nothing (flip7Winner, target).
NoPlayer == 0

\* ------------------------------------------------------------------- cards
Card(type, value) == [type |-> type, value |-> value]
Num(v) == Card("number", v)
Mod(v) == Card("modifier", v)
Act(a) == Card("action", a)

\* The kinds of card the initial draw piles are made of.
InitCards ==
  {Num(1), Num(7), Mod(X2), Mod(2), Act("Freeze"), Act("FlipThree"), Act("SecondChance")}

\* The hands (numbers, in draw order) a player holds in an initial state.
InitHands == {<<>>, <<1, 2, 3, 4, 5, 6>>}

\* The (mode, autoTarget) options a game is constructed with.
InitOptions ==
  { [mode |-> "interactive", autoTarget |-> DefaultAutoTarget],
    [mode |-> "auto", autoTarget |-> DefaultAutoTarget] }

\* Answers of the decision source to the three kinds of question.
HitStayAnswers == {"h", "s", "a", "x"}
UseAnswers == {"y", "n"}
TargetAnswers == {"0", "1", "2", "3", "x", "2x"}

VARIABLES
  players,            \* Game.players: per player the fields of Player
  deck,               \* Game.deck.cards, the last element is the top
  discardPile,        \* Game.discardPile
  mode,               \* Game.mode
  autoTarget,         \* Game.autoTarget
  dealerIndex,        \* Game.dealerIndex (0-based as in the code)
  roundNumber,        \* roundNumber of Game.start
  rpc,                \* position in start / playRound / initialDeal
  dealIdx,            \* loop index of initialDeal
  activePlayers,      \* playRound: the snapshot players.filter(p => p.active)
  turnIdx,            \* playRound: index into activePlayers
  roundEndedByFlip7,  \* playRound local
  flip7Winner,        \* playRound local (NoPlayer for null)
  stack,              \* applyCardToPlayer frames, innermost last
  ret,                \* value returned by the last finished applyCardToPlayer
                      \* (in DeckSpec: by the last drawCard, <<>> for null)
  ans,                \* answer consumed by the last step ("" if none)
  event,              \* tag and player of the last log line of the last step
  roundScore,         \* scoreTour of each player as computed in the last scoring
  draws,              \* number of cards Game.drawCard has returned so far
  clients,            \* net/server.js: the joined clients, { name, pendingResolve }
  promise             \* the Promise of the last Game.ask through io.ask, and whom it asked

vars ==
  << players, deck, discardPile, mode, autoTarget, dealerIndex, roundNumber, rpc,
     dealIdx, activePlayers, turnIdx, roundEndedByFlip7, flip7Winner, stack, ret,
     ans, event, roundScore, draws, clients, promise >>

\* --------------------------------------------------------------- sequences
Front(s) == SubSeq(s, 1, Len(s) - 1)
Last(s) == s[Len(s)]

\* Array.prototype.includes
Includes(s, v) == \E i \in 1..Len(s) : s[i] = v

\* numbers.reduce((a, b) => a + b, 0)
RECURSIVE SumFrom(_, _)
SumFrom(s, i) == IF i > Len(s) THEN 0 ELSE s[i] + SumFrom(s, i + 1)
Sum(s) == SumFrom(s, 1)


\* ------------------------------------------------------------------ Player
\* resetRoundState clearing the total as well
resetRoundStateClearsTotal(p) ==
  [p EXCEPT !.active = TRUE, !.eliminated = FALSE, !.numbers = <<>>,
            !.hasX2 = FALSE, !.plusBonus = 0, !.secondChance = FALSE,
            !.totalScore = 0]

\* Player.resetRoundState; totalScore is not touched.
resetRoundState(p) ==
  [p EXCEPT !.active = TRUE, !.eliminated = FALSE, !.numbers = <<>>,
            !.hasX2 = FALSE, !.plusBonus = 0, !.secondChance = FALSE]

\* new Player(name)
NewPlayer ==
  resetRoundState([active |-> FALSE, eliminated |-> FALSE, numbers |-> <<>>,
                   hasX2 |-> FALSE, plusBonus |-> 0, secondChance |-> FALSE,
                   totalScore |-> 0])

\* hasNumber finding no number
hasNumberNever(p, n) == FALSE

\* Player.hasNumber
hasNumber(p, n) == Includes(p.numbers, n)

addNumber(p, n) == [p EXCEPT !.numbers = Append(p.numbers, n)]

applyModifier(p, modValue) ==
  IF modValue = X2 THEN [p EXCEPT !.hasX2 = TRUE]
  ELSE [p EXCEPT !.plusBonus = p.plusBonus + modValue]

countDistinctNumbers(p) == Len(p.numbers)

\* computeRoundScore doubling the bonus as well
computeRoundScoreDoublesAll(p, flip7Bonus) ==
  IF p.eliminated THEN 0
  ELSE LET base == Sum(p.numbers) + p.plusBonus
           doubled == IF p.hasX2 THEN base * 2 ELSE base
           bonus == IF flip7Bonus THEN Flip7Bonus ELSE 0
       IN doubled + bonus

\* Player.computeRoundScore
computeRoundScore(p, flip7Bonus) ==
  IF p.eliminated THEN 0
  ELSE LET sumNumbers == Sum(p.numbers)
           doubled == IF p.hasX2 THEN sumNumbers * 2 ELSE sumNumbers
           base == doubled + p.plusBonus
           bonus == IF flip7Bonus THEN Flip7Bonus ELSE 0
       IN base + bonus

\* -------------------------------------------------------------------- Deck
\* n cards c in a row
Repeat(c, n) == [k \in 1..n |-> c]

\* Deck.build lines 25-29: i cards of value i, for i from the given value down to 1
RECURSIVE numberCardsFrom(_)
numberCardsFrom(i) ==
  IF i < 1 THEN <<>> ELSE Repeat(Num(i), i) \o numberCardsFrom(i - 1)

\* actionCards with the loop bound i <= 3 (four cards of each action)
actionCardsOneMore ==
  Repeat(Act("Freeze"), ActionCopies + 1) \o Repeat(Act("FlipThree"), ActionCopies + 1)
    \o Repeat(Act("SecondChance"), ActionCopies + 1)

\* Deck.build lines 34-36
actionCards ==
  Repeat(Act("Freeze"), ActionCopies) \o Repeat(Act("FlipThree"), ActionCopies)
    \o Repeat(Act("SecondChance"), ActionCopies)

\* Deck.build lines 39-40
modifierCards == <<Mod(X2), Mod(2), Mod(4), Mod(6), Mod(8), Mod(10)>>

\* build with line 31 left out
buildWithoutZero == numberCardsFrom(MaxNumber) \o actionCards \o modifierCards

\* Deck.build: this.cards after build() on the empty array
build == numberCardsFrom(MaxNumber) \o <<Num(0)>> \o actionCards \o modifierCards

\* Swap storing cards[j] at i without storing cards[i] at j
SwapOverwrites(s, i, j) == [s EXCEPT ![i] = s[j]]

\* Deck.shuffle line 47: [cards[i], cards[j]] = [cards[j], cards[i]]
Swap(s, i, j) == [s EXCEPT ![i] = s[j], ![j] = s[i]]

\* Deck.shuffle: Fisher-Yates from the last index down, every choice of j.
\* (1-based: for i = n down to 2, j in 1..i.)
RECURSIVE ShuffleFrom(_, _)
ShuffleFrom(cards, i) ==
  IF i <= 1 THEN {cards}
  ELSE UNION { ShuffleFrom(Swap(cards, i, j), i - 1) : j \in 1..i }

shuffle(cards) == ShuffleFrom(cards, Len(cards))

\* drawCard with line 180 left out: the discard pile is not emptied
drawCardKeepsDiscard(dk, dp) ==
  IF Len(dk) > 0
    THEN {[card |-> <<Last(dk)>>, deck |-> Front(dk), discardPile |-> dp]}
  ELSE IF Len(dp) = 0
    THEN {[card |-> <<>>, deck |-> dk, discardPile |-> dp]}
  ELSE {[card |-> <<Last(s)>>, deck |-> Front(s), discardPile |-> dp] : s \in shuffle(dp)}

\* Game.drawCard with Deck.draw: the outcomes [card, deck, discardPile];
\* card is the empty sequence for null, <<c>> for a card c.
drawCard(dk, dp) ==
  IF Len(dk) > 0
    THEN {[card |-> <<Last(dk)>>, deck |-> Front(dk), discardPile |-> dp]}
  ELSE IF Len(dp) = 0
    THEN {[card |-> <<>>, deck |-> dk, discardPile |-> dp]}
  ELSE {[card |-> <<Last(s)>>, deck |-> Front(s), discardPile |-> <<>>] : s \in shuffle(dp)}

\* discard dropping the card
discardLoses(dp, card) == dp

\* Game.discard
discard(dp, card) == Append(dp, card)

\* ------------------------------------------------------------------- Init
\* net/server.js line 57-61 and 84: a joined client; pendingResolve is
\* whether the client holds the resolve function of a Promise.
Client(name, pendingResolve) == [name |-> name, pendingResolve |-> pendingResolve]

\* tryStartGame: the clients when the game starts, every player joined.
StartClients == {Client(p, FALSE) : p \in Players}

\* The Promise that Game.ask returned last: none yet or its value taken
\* ("none"), awaiting its resolve function to be called ("pending"), or
\* resolved, with the value in ans; who was asked.
Promise(state, who) == [state |-> state, who |-> who]
NoPromise == Promise("none", NoPlayer)

NoRet == [alive |-> TRUE, flip7 |-> FALSE]
NoEvent == [tag |-> "", who |-> NoPlayer]
Ev(tag, who) == [tag |-> tag, who |-> who]

Decks(n) == [1..n -> InitCards]

Init ==
  /\ \E o \in InitOptions : mode = o.mode /\ autoTarget = o.autoTarget
  /\ deck \in Decks(DeckLen)
  /\ discardPile = <<>>
  /\ \/ /\ rpc = "playRound"
        /\ players = [p \in Players |-> NewPlayer]
     \/ /\ rpc = "loopTop"
        /\ players \in [Players -> {[NewPlayer EXCEPT !.numbers = h] : h \in InitHands}]
  /\ dealerIndex = 0
  /\ roundNumber = 1
  /\ dealIdx = 1
  /\ activePlayers = <<>>
  /\ turnIdx = 1
  /\ roundEndedByFlip7 = FALSE
  /\ flip7Winner = NoPlayer
  /\ stack = <<>>
  /\ ret = NoRet
  /\ ans = ""
  /\ event = NoEvent
  /\ roundScore = [p \in Players |-> 0]
  /\ draws = 0
  /\ clients = StartClients
  /\ promise = NoPromise

\* ------------------------------------------------------- applyCardToPlayer
\* A call in progress.  pc is where the call stands:
\*   start         at its first line
\*   askUse        awaiting the answer to "Utiliser SecondChance ? (y/n)"
\*   freezeTarget  awaiting the target index of a Freeze
\*   flipTarget    awaiting the target index of a FlipThree
\*   flipLoop      at the top of the FlipThree for loop, iteration i
\*   flipRet       the nested call of iteration i has returned
\*   pendLoop      at the top of the pendingActions loop, element k
\*   pendRet       the nested call of element k has returned
\*   scRet         the secondChance-extraDraw call has returned
Frame(player, card, actor) ==
  [player |-> player, card |-> card, actor |-> actor, pc |-> "start",
   target |-> NoPlayer, candidates |-> <<>>, i |-> 1, pendingActions |-> <<>>, k |-> 1]

Top == stack[Len(stack)]
\* InApply whatever the position of the running call
InApplyAnywhere(pc) == stack # <<>>

InApply(pc) == stack # <<>> /\ Top.pc = pc

\* The frames with the running one replaced by f.
WithTop(f) == [stack EXCEPT ![Len(stack)] = f]

Result(alive, flip7) == [alive |-> alive, flip7 |-> flip7]

\* chooseTargetPlayer, line 203: this.players.filter(p => p.active), in player order
RECURSIVE ActiveFrom(_, _)
ActiveFrom(pl, i) ==
  IF i > EXPECTED_PLAYERS THEN <<>>
  ELSE (IF pl[i].active THEN <<i>> ELSE <<>>) \o ActiveFrom(pl, i + 1)

\* candidatesOf with activeOnly false: every player
candidatesAll(pl) == [i \in 1..EXPECTED_PLAYERS |-> i]

\* chooseTargetPlayer, line 203, with activeOnly
candidatesOf(pl) == ActiveFrom(pl, 1)

\* firstActive taking the last active player instead of the first
lastActive(pl) ==
  IF candidatesOf(pl) = <<>> THEN NoPlayer ELSE candidatesOf(pl)[Len(candidatesOf(pl))]

\* this.players.find(p => p.active): the first active player, NoPlayer if none
firstActive(pl) ==
  IF candidatesOf(pl) = <<>> THEN NoPlayer ELSE candidatesOf(pl)[1]

\* firstRecipient taking the last match instead of the first
lastRecipient(pl) ==
  IF \E q \in DOMAIN pl : pl[q].active /\ ~pl[q].secondChance
    THEN CHOOSE q \in DOMAIN pl :
           /\ pl[q].active /\ ~pl[q].secondChance
           /\ \A r \in DOMAIN pl : (pl[r].active /\ ~pl[r].secondChance) => q >= r
  ELSE NoPlayer

\* this.players.find(p => p.active && !p.secondChance), pl being the array
firstRecipient(pl) ==
  IF \E q \in DOMAIN pl : pl[q].active /\ ~pl[q].secondChance
    THEN CHOOSE q \in DOMAIN pl :
           /\ pl[q].active /\ ~pl[q].secondChance
           /\ \A r \in DOMAIN pl : (pl[r].active /\ ~pl[r].secondChance) => q <= r
  ELSE NoPlayer

\* parseInt(ans, 10) of chooseTargetPlayer reads the digits the answer starts
\* with and ignores what follows them ("2x" is 2); it is NaN when the answer
\* starts with no digit.
parseIntIsNaN(a) == a \notin {"0", "1", "2", "3", "2x"}
parseInt(a) ==
  CASE a = "0" -> 0 [] a = "1" -> 1 [] a = "2" -> 2 [] a = "3" -> 3
    [] a = "2x" -> 2 [] OTHER -> 0

\* chooseTargetPlayer, line 213: the answer names a candidate
validChoice(a, cands) ==
  ~parseIntIsNaN(a) /\ parseInt(a) >= 1 /\ parseInt(a) <= Len(cands)

\* eliminate with line 363 left out
eliminateForgetsFlag(p) == [p EXCEPT !.active = FALSE]

\* lines 362-363: elimination by a duplicate
eliminate(p) == [p EXCEPT !.active = FALSE, !.eliminated = TRUE]

\* useSecondChance with line 354 left out
useSecondChanceKeepsIt(p) == p

\* line 354: the second chance is used up
useSecondChance(p) == [p EXCEPT !.secondChance = FALSE]

\* freeze with line 393 left out
freezeKeepsActive(p) ==
  [p EXCEPT !.eliminated = TRUE, !.numbers = <<>>,
            !.hasX2 = FALSE, !.plusBonus = 0, !.secondChance = FALSE]

\* freeze with line 397 left out
freezeKeepsBonus(p) ==
  [p EXCEPT !.active = FALSE, !.eliminated = TRUE, !.numbers = <<>>,
            !.hasX2 = FALSE, !.secondChance = FALSE]

\* lines 393-398: the effect of Freeze on its target
freeze(p) ==
  [p EXCEPT !.active = FALSE, !.eliminated = TRUE, !.numbers = <<>>,
            !.hasX2 = FALSE, !.plusBonus = 0, !.secondChance = FALSE]

\* numberResult with > for >= in line 372
numberResultOffByOne(p) == Result(TRUE, countDistinctNumbers(p) > Flip7Count)

\* lines 372-374: result of a new number
numberResult(p) == Result(TRUE, countDistinctNumbers(p) >= Flip7Count)

\* Variables no step of applyCardToPlayer writes.
roundVars ==
  << mode, autoTarget, clients, promise, dealerIndex, roundNumber, rpc, dealIdx,
     activePlayers,
     turnIdx, roundEndedByFlip7, flip7Winner, roundScore >>

\* The draw with outcome o of drawCard(deck, dp) happens.
Drawn(o) ==
  /\ deck' = o.deck
  /\ draws' = draws + Len(o.card)
  /\ draws' <= MaxDraws

\* return res
Return(res) ==
  /\ stack' = Front(stack)
  /\ ret' = res

\* await this.applyCardToPlayer(player, card, ctx, actor) from the running
\* call, which will resume at pc resume with its fields as in f
CallFrom(f, resume, player, card) ==
  /\ stack' = Append(WithTop([f EXCEPT !.pc = resume]), Frame(player, card, f.actor))
  /\ ret' = ret

\* lines 353-358: the duplicate is cancelled
UseIt(f) ==
  /\ players' = [players EXCEPT ![f.player] = useSecondChance(@)]
  /\ discardPile' = discard(discardPile, f.card)
  /\ event' = Ev("SECOND CHANCE", f.player)
  /\ Return(Result(TRUE, FALSE))

\* lines 361-366: the player is out of the round
Eliminate(f) ==
  /\ players' = [players EXCEPT ![f.player] = eliminate(@)]
  /\ discardPile' = discard(discardPile, f.card)
  /\ event' = Ev("ELIM", f.player)
  /\ Return(Result(FALSE, FALSE))

\* lines 340-375: a number card
ApplyNumber ==
  /\ InApply("start")
  /\ Top.card.type = "number"
  /\ LET f == Top
         p == players[f.player]
     IN IF hasNumber(p, f.card.value)
          THEN IF p.secondChance /\ mode = "interactive"
                 THEN /\ stack' = WithTop([f EXCEPT !.pc = "askUse"])
                      /\ event' = Ev("CARD", f.player)
                      /\ UNCHANGED << players, discardPile, ret >>
               ELSE IF p.secondChance
                 THEN UseIt(f)
               ELSE Eliminate(f)
        ELSE /\ players' = [players EXCEPT ![f.player] = addNumber(@, f.card.value)]
             /\ discardPile' = discard(discardPile, f.card)
             /\ event' = IF numberResult(players'[f.player]).flip7
                           THEN Ev("FLIP7", f.player) ELSE Ev("CARD", f.player)
             /\ Return(numberResult(players'[f.player]))
  /\ ans' = ""
  /\ UNCHANGED << deck, draws, roundVars >>

\* lines 346-359: the answer to "Utiliser SecondChance ? (y/n)"
\* (ans.trim().toLowerCase().startsWith("y"))
AnswerUse ==
  /\ InApply("askUse")
  /\ \E a \in UseAnswers :
       /\ ans' = a
       /\ IF a = "y" THEN UseIt(Top) ELSE Eliminate(Top)
  /\ UNCHANGED << deck, draws, roundVars >>

\* lines 378-382: a modifier card
ApplyModifier ==
  /\ InApply("start")
  /\ Top.card.type = "modifier"
  /\ players' = [players EXCEPT ![Top.player] = applyModifier(@, Top.card.value)]
  /\ discardPile' = discard(discardPile, Top.card)
  /\ event' = Ev("CARD", Top.player)
  /\ Return(Result(TRUE, FALSE))
  /\ ans' = ""
  /\ UNCHANGED << deck, draws, roundVars >>

\* lines 393-401: Freeze hits target
Frozen(target) ==
  /\ players' = [players EXCEPT ![target] = freeze(@)]
  /\ event' = Ev("FREEZE", target)
  /\ Return(Result(TRUE, FALSE))

\* lines 385-402 with chooseTargetPlayer up to its first ask
ApplyFreeze ==
  /\ InApply("start")
  /\ Top.card.type = "action" /\ Top.card.value = "Freeze"
  /\ discardPile' = discard(discardPile, Top.card)
  /\ LET cands == candidatesOf(players)
     IN IF Len(cands) = 0
          THEN /\ Return(Result(TRUE, FALSE))
               /\ event' = Ev("CARD", Top.player)
               /\ UNCHANGED players
        ELSE IF Len(cands) = 1
          THEN Frozen(cands[1])
        ELSE /\ stack' = WithTop([Top EXCEPT !.pc = "freezeTarget", !.candidates = cands])
             /\ event' = Ev("CHOICE", Top.actor)
             /\ UNCHANGED << players, ret >>
  /\ ans' = ""
  /\ UNCHANGED << deck, draws, roundVars >>

\* chooseTargetPlayer lines 210-215, then lines 391-401
AnswerFreezeTarget ==
  /\ InApply("freezeTarget")
  /\ \E a \in TargetAnswers :
       /\ ans' = a
       /\ IF validChoice(a, Top.candidates)
            THEN Frozen(Top.candidates[parseInt(a)])
          ELSE /\ event' = Ev("INVALID", Top.actor)
               /\ UNCHANGED << players, stack, ret >>
  /\ UNCHANGED << deck, draws, discardPile, roundVars >>

\* lines 404-424: SecondChance
ApplySecondChance ==
  /\ InApply("start")
  /\ Top.card.type = "action" /\ Top.card.value = "SecondChance"
  /\ LET f == Top
         p == players[f.player]
         dp == discard(discardPile, f.card)
     IN IF ~p.secondChance
          THEN /\ players' = [players EXCEPT ![f.player].secondChance = TRUE]
               /\ event' = Ev("SECOND CHANCE", f.player)
               /\ \E o \in drawCard(deck, dp) :
                    /\ Drawn(o)
                    /\ discardPile' = o.discardPile
                    /\ IF o.card # <<>>
                         THEN CallFrom(f, "scRet", f.player, o.card[1])
                       ELSE Return(Result(TRUE, FALSE))
        ELSE /\ LET other == firstRecipient(players)
                IN IF other # NoPlayer
                     THEN /\ players' = [players EXCEPT ![other].secondChance = TRUE]
                          /\ event' = Ev("SECOND CHANCE", other)
                   ELSE /\ players' = players
                        /\ event' = Ev("SECOND CHANCE", NoPlayer)
             /\ discardPile' = dp
             /\ UNCHANGED << deck, draws >>
             /\ Return(Result(TRUE, FALSE))
  /\ ans' = ""
  /\ UNCHANGED roundVars

\* secondChanceResult dropping the nested result
secondChanceResultDropped(res) == Result(TRUE, FALSE)

\* line 411: the value the SecondChance call returns, res being the nested result
secondChanceResult(res) == res

\* line 411: return await this.applyCardToPlayer(player, extra, ...)
SecondChanceReturn ==
  /\ InApply("scRet")
  /\ Return(secondChanceResult(ret))
  /\ ans' = ""
  /\ event' = NoEvent
  /\ UNCHANGED << players, deck, draws, discardPile, roundVars >>

\* lines 430-431: the sequence starts for target
FlipThreeBegins(target) ==
  /\ stack' = WithTop([Top EXCEPT !.pc = "flipLoop", !.target = target, !.i = 1,
                                  !.pendingActions = <<>>])
  /\ event' = Ev("FLIP THREE", target)
  /\ UNCHANGED << players, ret >>

\* lines 426-431 with chooseTargetPlayer up to its first ask
ApplyFlipThree ==
  /\ InApply("start")
  /\ Top.card.type = "action" /\ Top.card.value = "FlipThree"
  /\ discardPile' = discard(discardPile, Top.card)
  /\ LET cands == candidatesOf(players)
     IN IF Len(cands) = 0
          THEN /\ Return(Result(TRUE, FALSE))
               /\ event' = Ev("CARD", Top.player)
               /\ UNCHANGED players
        ELSE IF Len(cands) = 1
          THEN FlipThreeBegins(cands[1])
        ELSE /\ stack' = WithTop([Top EXCEPT !.pc = "flipTarget", !.candidates = cands])
             /\ event' = Ev("CHOICE", Top.actor)
             /\ UNCHANGED << players, ret >>
  /\ ans' = ""
  /\ UNCHANGED << deck, draws, roundVars >>

\* chooseTargetPlayer lines 210-215, then lines 428-431
AnswerFlipThreeTarget ==
  /\ InApply("flipTarget")
  /\ \E a \in TargetAnswers :
       /\ ans' = a
       /\ IF validChoice(a, Top.candidates)
            THEN FlipThreeBegins(Top.candidates[parseInt(a)])
          ELSE /\ event' = Ev("INVALID", Top.actor)
               /\ UNCHANGED << players, stack, ret >>
  /\ UNCHANGED << deck, draws, discardPile, roundVars >>

\* flipThreeContinues with <= 4 for <= 3 in line 433
flipThreeContinuesOneMore(i, t) == i <= FlipThreeDraws + 1 /\ t.active

\* lines 433-434: the for loop goes on with iteration i for a target in state t
flipThreeContinues(i, t) == i <= FlipThreeDraws /\ t.active

\* flipThreeAfter returning at once when the target is out as well
flipThreeAfterReturnsOnBust(res) ==
  IF ~res.alive \/ res.flip7 THEN "return" ELSE "next"

\* flipThreeAfter with line 447 left out
flipThreeAfterIgnoresFlip7(res) == IF ~res.alive THEN "break" ELSE "next"

\* lines 446-447: what the loop does with the result of the nested call
flipThreeAfter(res) ==
  IF ~res.alive THEN "break" ELSE IF res.flip7 THEN "return" ELSE "next"

\* line 457: what the pendingActions loop does with the result of the nested call
pendingAfter(res) == IF res.flip7 THEN "return" ELSE "next"

\* lines 433-449: one iteration of the FlipThree loop, up to the nested call
FlipThreeDraw ==
  /\ InApply("flipLoop")
  /\ LET f == Top
     IN IF ~flipThreeContinues(f.i, players[f.target])
          THEN /\ stack' = WithTop([f EXCEPT !.pc = "pendLoop", !.k = 1])
               /\ event' = NoEvent
               /\ UNCHANGED << deck, draws, discardPile, ret >>
        ELSE \E o \in drawCard(deck, discardPile) :
               /\ Drawn(o)
               /\ IF o.card = <<>>
                    THEN /\ stack' = WithTop([f EXCEPT !.pc = "pendLoop", !.k = 1])
                         /\ discardPile' = o.discardPile
                         /\ event' = NoEvent
                         /\ ret' = ret
                  ELSE IF o.card[1].type = "action"
                    THEN /\ stack' = WithTop([f EXCEPT
                                !.pendingActions = Append(@, o.card[1]), !.i = @ + 1])
                         /\ discardPile' = discard(o.discardPile, o.card[1])
                         /\ event' = Ev("FLIP THREE", f.target)
                         /\ ret' = ret
                  ELSE /\ CallFrom(f, "flipRet", f.target, o.card[1])
                       /\ discardPile' = o.discardPile
                       /\ event' = Ev("FLIP THREE", f.target)
  /\ ans' = ""
  /\ UNCHANGED << players, roundVars >>

\* lines 445-448: the nested call of the FlipThree loop has returned
FlipThreeResume ==
  /\ InApply("flipRet")
  /\ LET after == flipThreeAfter(ret)
     IN IF after = "return"
          THEN Return(Result(TRUE, TRUE))
        ELSE IF after = "break"
          THEN /\ stack' = WithTop([Top EXCEPT !.pc = "pendLoop", !.k = 1])
               /\ ret' = ret
        ELSE /\ stack' = WithTop([Top EXCEPT !.pc = "flipLoop", !.i = @ + 1])
             /\ ret' = ret
  /\ ans' = ""
  /\ event' = NoEvent
  /\ UNCHANGED << players, deck, draws, discardPile, roundVars >>

\* lines 451-460: the next deferred action, up to the nested call
PendingNext ==
  /\ InApply("pendLoop")
  /\ LET f == Top
         carrier == firstActive(players)
     IN IF f.k > Len(f.pendingActions)
          THEN /\ Return(Result(TRUE, FALSE))
               /\ event' = NoEvent
        ELSE IF carrier = NoPlayer
          THEN /\ Return(Result(TRUE, FALSE))
               /\ event' = Ev("PENDING ACTION", NoPlayer)
        ELSE /\ CallFrom(f, "pendRet", carrier, f.pendingActions[f.k])
             /\ event' = Ev("PENDING ACTION", carrier)
  /\ ans' = ""
  /\ UNCHANGED << players, deck, draws, discardPile, roundVars >>

\* lines 456-457: the nested call of the pendingActions loop has returned
PendingResume ==
  /\ InApply("pendRet")
  /\ IF pendingAfter(ret) = "return"
       THEN Return(Result(TRUE, TRUE))
     ELSE /\ stack' = WithTop([Top EXCEPT !.pc = "pendLoop", !.k = @ + 1])
          /\ ret' = ret
  /\ ans' = ""
  /\ event' = NoEvent
  /\ UNCHANGED << players, deck, draws, discardPile, roundVars >>

ApplyStep ==
  \/ ApplyNumber
  \/ AnswerUse
  \/ ApplyModifier
  \/ ApplyFreeze
  \/ AnswerFreezeTarget
  \/ ApplySecondChance
  \/ SecondChanceReturn
  \/ ApplyFlipThree
  \/ AnswerFlipThreeTarget
  \/ FlipThreeDraw
  \/ FlipThreeResume
  \/ PendingNext
  \/ PendingResume

\* ---------------------------------------------------- playRound and start
\* Variables of the apply calls and the piles, for the steps of playRound
\* that touch neither.
gameConst == << mode, autoTarget, clients, promise >>

\* CallTop applying the card to the first player of the list
CallTopFirst(resume, p, card) ==
  /\ stack' = <<Frame(1, card, 1)>>
  /\ rpc' = resume

\* The running top-level code calls applyCardToPlayer(p, card, ctx, p.name)
\* and will resume at rpc resume.
CallTop(resume, p, card) ==
  /\ stack' = <<Frame(p, card, p)>>
  /\ rpc' = resume

\* lines 491-498: playRound resets the players and enters initialDeal
PlayRoundStart ==
  /\ rpc = "playRound"
  /\ players' = [p \in Players |-> resetRoundState(players[p])]
  /\ dealIdx' = 1
  /\ rpc' = "deal"
  /\ roundEndedByFlip7' = FALSE
  /\ flip7Winner' = NoPlayer
  /\ ret' = NoRet
  /\ ans' = ""
  /\ event' = Ev("ROUND", NoPlayer)
  /\ UNCHANGED << deck, draws, discardPile, gameConst, dealerIndex, roundNumber,
                  activePlayers, turnIdx, stack, roundScore >>

\* lines 475-481 and 485: one iteration of initialDeal, up to the call
DealNext ==
  /\ rpc = "deal"
  /\ stack = <<>>
  /\ IF dealIdx > EXPECTED_PLAYERS
       THEN /\ rpc' = "loopTop"
            /\ UNCHANGED << deck, draws, discardPile, dealIdx, stack >>
     ELSE IF ~players[dealIdx].active
       THEN /\ dealIdx' = dealIdx + 1
            /\ UNCHANGED << deck, draws, discardPile, rpc, stack >>
     ELSE \E o \in drawCard(deck, discardPile) :
            /\ Drawn(o)
            /\ discardPile' = o.discardPile
            /\ IF o.card = <<>>
                 THEN /\ dealIdx' = dealIdx + 1
                      /\ UNCHANGED << rpc, stack >>
               ELSE /\ CallTop("dealRet", dealIdx, o.card[1])
                    /\ dealIdx' = dealIdx
  /\ ans' = ""
  /\ event' = NoEvent
  /\ UNCHANGED << players, gameConst, dealerIndex, roundNumber, activePlayers,
                  turnIdx, roundEndedByFlip7, flip7Winner, ret, roundScore >>

\* lines 481-482 and 498: the call of initialDeal has returned
DealResume ==
  /\ rpc = "dealRet"
  /\ stack = <<>>
  /\ IF ret.flip7
       THEN /\ roundEndedByFlip7' = TRUE
            /\ rpc' = "scoring"
            /\ dealIdx' = dealIdx
     ELSE /\ dealIdx' = dealIdx + 1
          /\ rpc' = "deal"
          /\ roundEndedByFlip7' = roundEndedByFlip7
  /\ ans' = ""
  /\ event' = NoEvent
  /\ UNCHANGED << players, deck, draws, discardPile, gameConst, dealerIndex, roundNumber,
                  activePlayers, turnIdx, flip7Winner, stack, ret, roundScore >>

\* lines 501-503: the top of the while loop
LoopTop ==
  /\ rpc = "loopTop"
  /\ activePlayers' = candidatesOf(players)
  /\ turnIdx' = 1
  /\ rpc' = IF roundEndedByFlip7 \/ activePlayers' = <<>> THEN "scoring" ELSE "turn"
  /\ ans' = ""
  /\ event' = NoEvent
  /\ UNCHANGED << players, deck, draws, discardPile, gameConst, dealerIndex, roundNumber,
                  dealIdx, roundEndedByFlip7, flip7Winner, stack, ret, roundScore >>

\* line 559: the auto strategy stays
autoStays(p, target) == countDistinctNumbers(p) >= target

\* A hit of player p: lines 538-545 and 571-577
Hit(p) ==
  \E o \in drawCard(deck, discardPile) :
    /\ Drawn(o)
    /\ discardPile' = o.discardPile
    /\ IF o.card = <<>>
         THEN /\ players' = [players EXCEPT ![p].active = FALSE]
              /\ turnIdx' = turnIdx + 1
              /\ rpc' = "turn"
              /\ event' = Ev("DECK", p)
              /\ stack' = stack
       ELSE /\ CallTop("hitRet", p, o.card[1])
            /\ event' = Ev("HIT", p)
            /\ UNCHANGED << players, turnIdx >>

\* A stay of player p: lines 531-535 and 566-569
Stay(p) ==
  /\ players' = [players EXCEPT ![p].active = FALSE]
  /\ turnIdx' = turnIdx + 1
  /\ rpc' = "turn"
  /\ event' = Ev("STAY", p)
  /\ UNCHANGED << deck, draws, discardPile, stack >>

\* lines 505-515 and 557-577: the next player of the snapshot
Turn ==
  /\ rpc = "turn"
  /\ stack = <<>>
  /\ IF turnIdx > Len(activePlayers)
       THEN /\ rpc' = "loopTop"
            /\ event' = NoEvent
            /\ UNCHANGED << players, deck, draws, discardPile, turnIdx, stack >>
     ELSE LET p == activePlayers[turnIdx]
          IN IF ~players[p].active
               THEN /\ turnIdx' = turnIdx + 1
                    /\ event' = NoEvent
                    /\ UNCHANGED << players, deck, draws, discardPile, rpc, stack >>
             ELSE IF mode = "interactive"
               THEN /\ rpc' = "askHit"
                    /\ event' = Ev("TURN", p)
                    /\ UNCHANGED << players, deck, draws, discardPile, turnIdx, stack >>
             ELSE IF autoStays(players[p], autoTarget)
               THEN Stay(p)
             ELSE Hit(p)
  /\ ans' = ""
  /\ UNCHANGED << gameConst, dealerIndex, roundNumber, dealIdx, activePlayers,
                  roundEndedByFlip7, flip7Winner, ret, roundScore >>

\* hitStayChoice asking again on an answer that is none of h, s, a
hitStayChoiceStrict(a) ==
  IF a = "a" THEN "advice" ELSE IF a = "s" THEN "stay"
  ELSE IF a = "h" THEN "hit" ELSE "advice"

\* hitStayChoice taking the request for advice for a hit
hitStayChoiceAdviceHits(a) == IF a = "s" THEN "stay" ELSE "hit"

\* lines 518, 531, 537: what playRound makes of the answer: advice if it
\* starts with a, stay if it starts with s, hit otherwise
hitStayChoice(a) ==
  IF a = "a" THEN "advice" ELSE IF a = "s" THEN "stay" ELSE "hit"

\* lines 515-550: the answer to "(h)it / (s)tay / (a)dvice ?"
AnswerHitStay ==
  /\ rpc = "askHit"
  /\ stack = <<>>
  /\ \E a \in HitStayAnswers :
       /\ ans' = a
       /\ LET p == activePlayers[turnIdx]
          IN IF hitStayChoice(a) = "advice"
               THEN /\ event' = Ev("IA", p)
                    /\ UNCHANGED << players, deck, draws, discardPile, turnIdx, rpc, stack >>
             ELSE IF hitStayChoice(a) = "stay"
               THEN Stay(p)
             ELSE Hit(p)
  /\ UNCHANGED << gameConst, dealerIndex, roundNumber, dealIdx, activePlayers,
                  roundEndedByFlip7, flip7Winner, ret, roundScore >>

\* lines 545-553 and 577-582: the call of a hit has returned
HitResume ==
  /\ rpc = "hitRet"
  /\ stack = <<>>
  /\ IF ret.flip7
       THEN /\ roundEndedByFlip7' = TRUE
            /\ flip7Winner' = activePlayers[turnIdx]
            /\ rpc' = "scoring"
            /\ turnIdx' = turnIdx
     ELSE /\ turnIdx' = turnIdx + 1
          /\ rpc' = "turn"
          /\ UNCHANGED << roundEndedByFlip7, flip7Winner >>
  /\ ans' = ""
  /\ event' = NoEvent
  /\ UNCHANGED << players, deck, draws, discardPile, gameConst, dealerIndex, roundNumber,
                  dealIdx, activePlayers, stack, ret, roundScore >>

\* line 593: flip7Winner && flip7Winner.name === p.name
flip7BonusOf(winner, p) == winner # NoPlayer /\ winner = p

\* lines 592-608: scoring, and the dealer moves on
Scoring ==
  /\ rpc = "scoring"
  /\ roundScore' = [p \in Players |->
                      computeRoundScore(players[p], flip7BonusOf(flip7Winner, p))]
  /\ players' = [p \in Players |->
                   [players[p] EXCEPT !.totalScore = @ + roundScore'[p],
                                      !.secondChance = FALSE]]
  /\ dealerIndex' = (dealerIndex + 1) % EXPECTED_PLAYERS
  /\ rpc' = "roundEnd"
  /\ ans' = ""
  /\ event' = Ev("SCORE", NoPlayer)
  /\ UNCHANGED << deck, draws, discardPile, gameConst, roundNumber, dealIdx, activePlayers,
                  turnIdx, roundEndedByFlip7, flip7Winner, stack, ret >>

\* gameIsOver with > for >= in line 629
gameIsOverStrict(pl) == \E p \in Players : pl[p].totalScore > WinScore

\* line 629: this.players.some(p => p.totalScore >= 200)
gameIsOver(pl) == \E p \in Players : pl[p].totalScore >= WinScore

\* lines 636-637: the first player of the ranking
winnerOf(pl) ==
  CHOOSE w \in Players :
    /\ \A q \in Players : pl[w].totalScore >= pl[q].totalScore
    /\ \A q \in Players : pl[q].totalScore = pl[w].totalScore => w <= q

\* lines 627-639: after playRound, Game.start ends the game or plays on
AfterRound ==
  /\ rpc = "roundEnd"
  /\ IF gameIsOver(players)
       THEN /\ rpc' = "gameOver"
            /\ event' = Ev("WINNER", winnerOf(players))
            /\ roundNumber' = roundNumber
     ELSE /\ rpc' = "playRound"
          /\ event' = NoEvent
          /\ roundNumber' = roundNumber + 1
  /\ ans' = ""
  /\ UNCHANGED << players, deck, draws, discardPile, gameConst, dealerIndex, dealIdx,
                  activePlayers, turnIdx, roundEndedByFlip7, flip7Winner, stack, ret,
                  roundScore >>

Next ==
  \/ PlayRoundStart
  \/ DealNext
  \/ DealResume
  \/ LoopTop
  \/ Turn
  \/ AnswerHitStay
  \/ HitResume
  \/ Scoring
  \/ AfterRound
  \/ ApplyStep

Spec == Init /\ [][Next]_vars

\* ------------------------------------------------ numbers of JavaScript
\* A Number of JavaScript is an IEEE 754 double: 53 significant bits, every
\* operation rounded to the nearest, ties to even.  The Numbers of the advisor
\* are not negative and of moderate size.  A natural number of any size is
\* here the sequence of its digits in base DigitBase, the most significant
\* first; a Number is its 53-bit significand m, which is five such digits the
\* first of which is 1, and the exponent e of the last bit of m: the Number
\* is m * 2^e.  Zero has no digits.
SignificandBits == 53
DigitBits == 13
DigitBase == 2 ^ DigitBits
SignificandDigits == (SignificandBits - 1) \div DigitBits + 1

Zero == [m |-> <<>>, e |-> 0]

Zeros(n) == IF n <= 0 THEN <<>> ELSE [i \in 1..n |-> 0]

\* The digits of the natural number n.
RECURSIVE IntDigits(_)
IntDigits(n) ==
  IF n = 0 THEN <<>> ELSE Append(IntDigits(n \div DigitBase), n % DigitBase)

\* The digits a without the zeros in front.
RECURSIVE Strip(_)
Strip(a) == IF a # <<>> /\ a[1] = 0 THEN Strip(Tail(a)) ELSE a

\* The number of bits of the digit d > 0.
BitLen(d) == CHOOSE k \in 1..DigitBits : 2 ^ (k - 1) <= d /\ d < 2 ^ k

\* The digits a times the natural number s, plus carry.
RECURSIVE MulDigits(_, _, _)
MulDigits(a, s, carry) ==
  IF a = <<>> THEN IntDigits(carry)
  ELSE LET t == Last(a) * s + carry
       IN Append(MulDigits(Front(a), s, t \div DigitBase), t % DigitBase)

\* The sum of the digits a and b, aligned at the last digit, plus carry.
RECURSIVE AddDigits(_, _, _)
AddDigits(a, b, carry) ==
  IF a = <<>> /\ b = <<>> THEN IntDigits(carry)
  ELSE LET t == (IF a = <<>> THEN 0 ELSE Last(a))
                + (IF b = <<>> THEN 0 ELSE Last(b)) + carry
       IN Append(AddDigits(IF a = <<>> THEN a ELSE Front(a),
                           IF b = <<>> THEN b ELSE Front(b), t \div DigitBase),
                 t % DigitBase)

\* The Number nearest to a * 2^e, for the digits a of a natural number:
\* a is shifted left until its first digit is 1, cut after 53 bits and
\* rounded to the nearest, ties to even.
roundDigits(a, e) ==
  IF Strip(a) = <<>> THEN Zero
  ELSE LET s == Strip(a)
           t == (DigitBits + 1 - BitLen(s[1])) % DigitBits
           b == Strip(MulDigits(s, 2 ^ t, 0))
           b5 == b \o Zeros(SignificandDigits - Len(b))
           short == SignificandDigits - Len(b)
           keep == SubSeq(b5, 1, SignificandDigits)
           rest == SubSeq(b5, SignificandDigits + 1, Len(b5))
           more == \E i \in 2..Len(rest) : rest[i] # 0
           up == /\ rest # <<>>
                 /\ \/ rest[1] > DigitBase \div 2
                    \/ /\ rest[1] = DigitBase \div 2
                       /\ more \/ keep[SignificandDigits] % 2 = 1
           r == IF up THEN AddDigits(keep, <<1>>, 0) ELSE keep
           ex == IF short > 0 THEN e - t - DigitBits * short
                 ELSE e - t + DigitBits * Len(rest)
       IN IF r[1] = 2
            THEN [m |-> <<1>> \o Zeros(SignificandDigits - 1), e |-> ex + 1]
          ELSE [m |-> r, e |-> ex]

\* The Number of the natural number n.
fromInt(n) == roundDigits(IntDigits(n), 0)

\* k digits of the quotient r / n after the point, for r < n, and a digit 1
\* more when the division has not come out even.
RECURSIVE DivDigits(_, _, _)
DivDigits(r, n, k) ==
  IF k = 0 THEN (IF r = 0 THEN <<>> ELSE <<1>>)
  ELSE << (r * DigitBase) \div n >> \o DivDigits((r * DigitBase) % n, n, k - 1)

\* The digits after the point that c / n is worked out to.
QuotientDigits == 6

\* c / n of two natural numbers, n > 0
fdiv(c, n) ==
  LET q == <<c \div n>> \o DivDigits(c % n, n, QuotientDigits)
  IN roundDigits(q, - DigitBits * (Len(q) - 1))

\* x * s of a Number and a natural number
fmul(x, s) ==
  IF x = Zero THEN Zero ELSE roundDigits(MulDigits(x.m, s, 0), x.e)

\* x + y of two Numbers
fadd(x, y) ==
  IF x = Zero THEN y
  ELSE IF y = Zero THEN x
  ELSE LET hi == IF x.e >= y.e THEN x ELSE y
           lo == IF x.e >= y.e THEN y ELSE x
           k == hi.e - lo.e
           h == MulDigits(hi.m, 2 ^ (k % DigitBits), 0) \o Zeros(k \div DigitBits)
       IN roundDigits(AddDigits(h, lo.m, 0), lo.e)

\* x > y of two Numbers
fgt(x, y) ==
  IF x = Zero THEN FALSE
  ELSE IF y = Zero THEN TRUE
  ELSE \/ x.e > y.e
       \/ /\ x.e = y.e
          /\ \E i \in 1..SignificandDigits :
               /\ x.m[i] > y.m[i]
               /\ \A j \in 1..(i - 1) : x.m[j] = y.m[j]

\* ------------------------------------------------------------ the advisor
\* The keys of a Map filled from the cards dk[1..i], in the order they were
\* first set: the values of the number cards (t = "number", lines 241-243)
\* or of the +n modifiers (t = "modifier", lines 244-246).
RECURSIVE keysUpTo(_, _, _)
keysUpTo(dk, t, i) ==
  IF i = 0 THEN <<>>
  ELSE LET k == keysUpTo(dk, t, i - 1)
           c == dk[i]
       IN IF c.type = t /\ ~(t = "modifier" /\ c.value = X2) /\ ~Includes(k, c.value)
            THEN Append(k, c.value)
          ELSE k

\* The cards of dk of type t and value v.
countCards(dk, t, v) ==
  Cardinality({i \in DOMAIN dk : dk[i].type = t /\ dk[i].value = v})

\* lines 233-250: the counts of the remaining cards
counts(dk) ==
  [total |-> Len(dk),
   numberByValue |-> [v \in {dk[i].value : i \in {j \in DOMAIN dk : dk[j].type = "number"}}
                        |-> countCards(dk, "number", v)],
   modifierX2 |-> countCards(dk, "modifier", X2),
   modifierPlus |-> [v \in {dk[i].value :
                              i \in {j \in DOMAIN dk : dk[j].type = "modifier"
                                                       /\ dk[j].value # X2}}
                       |-> countCards(dk, "modifier", v)],
   actionTotal |-> Cardinality({i \in DOMAIN dk : dk[i].type = "action"})]

\* lines 252-254: the remaining cards that would be a duplicate
RECURSIVE duplicatesFrom(_, _, _)
duplicatesFrom(p, dk, i) ==
  IF i > Len(p.numbers) THEN 0
  ELSE countCards(dk, "number", p.numbers[i]) + duplicatesFrom(p, dk, i + 1)

duplicateRemainingCount(p, dk) == duplicatesFrom(p, dk, 1)

\* scoreAfterVirtualDraw without the 15 points of the seventh number
scoreAfterVirtualDrawNoBonus(p, cardType, cardValue) ==
  IF cardType = "number" /\ Includes(p.numbers, cardValue) /\ ~p.secondChance THEN 0
  ELSE LET numbers == IF cardType = "number" /\ ~Includes(p.numbers, cardValue)
                        THEN Append(p.numbers, cardValue) ELSE p.numbers
           hasX2v == p.hasX2 \/ (cardType = "modifier" /\ cardValue = X2)
           plusBonus == IF cardType = "modifier" /\ cardValue # X2
                          THEN p.plusBonus + cardValue ELSE p.plusBonus
       IN (IF hasX2v THEN Sum(numbers) * 2 ELSE Sum(numbers)) + plusBonus

\* lines 257-293: the score of p after a card of that type and value, worked
\* out on a copy of p's numbers, hasX2, plusBonus and secondChance
scoreAfterVirtualDraw(p, cardType, cardValue) ==
  IF cardType = "number" /\ Includes(p.numbers, cardValue) /\ ~p.secondChance THEN 0
  ELSE LET numbers == IF cardType = "number" /\ ~Includes(p.numbers, cardValue)
                        THEN Append(p.numbers, cardValue) ELSE p.numbers
           hasX2v == p.hasX2 \/ (cardType = "modifier" /\ cardValue = X2)
           plusBonus == IF cardType = "modifier" /\ cardValue # X2
                          THEN p.plusBonus + cardValue ELSE p.plusBonus
           sumNumbers == Sum(numbers)
           doubled == IF hasX2v THEN sumNumbers * 2 ELSE sumNumbers
           score == doubled + plusBonus
       IN IF Len(numbers) >= Flip7Count THEN score + Flip7Bonus ELSE score

\* lines 298-300 and 306-308: expectedHitScore += (cnt / counts.total) *
\* scoreAfterVirtualDraw(t, val) for the keys of one Map, in their order
RECURSIVE addTerms(_, _, _, _, _)
addTerms(acc, p, dk, t, keys) ==
  IF keys = <<>> THEN acc
  ELSE addTerms(fadd(acc, fmul(fdiv(countCards(dk, t, Head(keys)), counts(dk).total),
                               scoreAfterVirtualDraw(p, t, Head(keys)))),
                p, dk, t, Tail(keys))

\* lines 295-312: the expectation of a hit, a Number
expectedHitScore(p, dk) ==
  LET c == counts(dk)
      scoreStay == computeRoundScore(p, FALSE)
      e1 == addTerms(Zero, p, dk, "number", keysUpTo(dk, "number", Len(dk)))
      e2 == IF c.modifierX2 > 0
              THEN fadd(e1, fmul(fdiv(c.modifierX2, c.total),
                                 scoreAfterVirtualDraw(p, "modifier", X2)))
            ELSE e1
      e3 == addTerms(e2, p, dk, "modifier", keysUpTo(dk, "modifier", Len(dk)))
  IN IF c.actionTotal > 0
       THEN fadd(e3, fmul(fdiv(c.actionTotal, c.total), scoreStay))
     ELSE e3

\* lines 221-330: the advice for p with the draw pile dk.  details is <<>>
\* for null; its two figures rounded for display (pBustRaw to 3 decimals,
\* expectedHitScore to 2) are left out.
computeAdviceForPlayer(p, dk) ==
  IF p.eliminated \/ ~p.active
    THEN [suggestion |-> "STAY", reason |-> "inactive", details |-> <<>>]
  ELSE IF Len(dk) <= 0
    THEN [suggestion |-> "STAY", reason |-> "no cards",
          details |-> << [remainingCards |-> 0] >>]
  ELSE LET scoreStay == computeRoundScore(p, FALSE)
           hit == fgt(expectedHitScore(p, dk), fromInt(scoreStay))
       IN [suggestion |-> IF hit THEN "HIT" ELSE "STAY",
           reason |-> IF hit THEN "expectation" ELSE "risk",
           details |-> << [remainingCards |-> Len(dk),
                           duplicates |-> duplicateRemainingCount(p, dk),
                           scoreStay |-> scoreStay,
                           numbersAlready |-> Len(p.numbers)] >>]

\* ------------------------------------------------- the piles on their own
\* The kinds of card the piles of DeckSpec are made of.
PileCards == {Num(1), Num(7), Act("Freeze")}

\* The piles of at most n cards.
Piles(n) == UNION {[1..m -> PileCards] : m \in 0..n}

\* The variables the operations on the piles leave alone.
pileConst ==
  << players, mode, autoTarget, clients, promise, dealerIndex, roundNumber, dealIdx,
     activePlayers,
     turnIdx, roundEndedByFlip7, flip7Winner, stack, ans, roundScore, draws >>

\* A Deck under construction (rpc = "new"), or a Game with some draw pile and
\* some discard pile (rpc = "pile").
DeckInit ==
  /\ mode = "auto" /\ autoTarget = DefaultAutoTarget
  /\ players = [p \in Players |-> NewPlayer]
  /\ \/ rpc = "new" /\ deck = <<>> /\ discardPile = <<>>
     \/ rpc = "pile" /\ deck \in Piles(MaxPile) /\ discardPile \in Piles(MaxPile)
  /\ dealerIndex = 0
  /\ roundNumber = 1
  /\ dealIdx = 1
  /\ activePlayers = <<>>
  /\ turnIdx = 1
  /\ roundEndedByFlip7 = FALSE
  /\ flip7Winner = NoPlayer
  /\ stack = <<>>
  /\ ret = <<>>
  /\ ans = ""
  /\ event = NoEvent
  /\ roundScore = [p \in Players |-> 0]
  /\ draws = 0
  /\ clients = StartClients
  /\ promise = NoPromise

\* Deck.build on the new deck
DeckBuild ==
  /\ rpc = "new"
  /\ deck' = build
  /\ rpc' = "built"
  /\ event' = Ev("build", NoPlayer)
  /\ UNCHANGED << discardPile, ret, pileConst >>

\* Deck.shuffle
PileShuffle ==
  /\ rpc = "pile"
  /\ deck' \in shuffle(deck)
  /\ event' = Ev("shuffle", NoPlayer)
  /\ UNCHANGED << discardPile, ret, rpc, pileConst >>

\* Game.drawCard
PileDraw ==
  /\ rpc = "pile"
  /\ \E o \in drawCard(deck, discardPile) :
       /\ deck' = o.deck
       /\ discardPile' = o.discardPile
       /\ ret' = o.card
  /\ event' = Ev("draw", NoPlayer)
  /\ UNCHANGED << rpc, pileConst >>

\* Game.discard of some card, while the discard pile is short
PileDiscard ==
  /\ rpc = "pile"
  /\ Len(discardPile) < MaxPile
  /\ \E c \in PileCards : discardPile' = discard(discardPile, c)
  /\ event' = Ev("discard", NoPlayer)
  /\ UNCHANGED << deck, ret, rpc, pileConst >>

DeckNext ==
  \/ DeckBuild
  \/ PileShuffle
  \/ PileDraw
  \/ PileDiscard

DeckSpec == DeckInit /\ [][DeckNext]_vars

\* The game with a draw pile that has an eighth number to give to a player
\* who holds seven.
WideCards == InitCards \cup {Num(8)}

WideInit ==
  /\ \E o \in InitOptions : mode = o.mode /\ autoTarget = o.autoTarget
  /\ deck \in [1..DeckLen -> WideCards]
  /\ discardPile = <<>>
  /\ \/ /\ rpc = "playRound"
        /\ players = [p \in Players |-> NewPlayer]
     \/ /\ rpc = "loopTop"
        /\ players \in [Players -> {[NewPlayer EXCEPT !.numbers = h] : h \in InitHands}]
  /\ dealerIndex = 0
  /\ roundNumber = 1
  /\ dealIdx = 1
  /\ activePlayers = <<>>
  /\ turnIdx = 1
  /\ roundEndedByFlip7 = FALSE
  /\ flip7Winner = NoPlayer
  /\ stack = <<>>
  /\ ret = NoRet
  /\ ans = ""
  /\ event = NoEvent
  /\ roundScore = [p \in Players |-> 0]
  /\ draws = 0
  /\ clients = StartClients
  /\ promise = NoPromise

WideSpec == WideInit /\ [][Next]_vars

\* The game from its construction, or from initialDeal when it reaches the
\* last player, who may hold the numbers that FlipThree sequences of the
\* players dealt before gave them.
DealInit ==
  /\ \E o \in InitOptions : mode = o.mode /\ autoTarget = o.autoTarget
  /\ deck \in Decks(DeckLen)
  /\ discardPile = <<>>
  /\ \/ /\ rpc = "playRound"
        /\ players = [p \in Players |-> NewPlayer]
        /\ dealIdx = 1
     \/ /\ rpc = "deal"
        /\ players \in [Players -> {[NewPlayer EXCEPT !.numbers = h] : h \in InitHands}]
        /\ dealIdx = EXPECTED_PLAYERS
  /\ dealerIndex = 0
  /\ roundNumber = 1
  /\ activePlayers = <<>>
  /\ turnIdx = 1
  /\ roundEndedByFlip7 = FALSE
  /\ flip7Winner = NoPlayer
  /\ stack = <<>>
  /\ ret = NoRet
  /\ ans = ""
  /\ event = NoEvent
  /\ roundScore = [p \in Players |-> 0]
  /\ draws = 0
  /\ clients = StartClients
  /\ promise = NoPromise

DealSpec == DealInit /\ [][Next]_vars

\* The game and the piles on their own, side by side.
AllInit == Init \/ DeckInit
AllNext == Next \/ DeckNext
AllSpec == AllInit /\ [][AllNext]_vars

\* -------------------------------------------------- the end of the game
\* Totals of the players when the last rounds of a game are scored.
EndTotals == {0, 178, 179, 185}

\* A round that is over and about to be scored, late in a game: every player
\* has stayed or is eliminated, with some hand and some total below WinScore.
EndInit ==
  /\ \E o \in InitOptions : mode = o.mode /\ autoTarget = o.autoTarget
  /\ deck \in Decks(DeckLen)
  /\ discardPile = <<>>
  /\ rpc = "scoring"
  /\ players \in [Players ->
        {[NewPlayer EXCEPT !.numbers = h, !.active = FALSE, !.eliminated = e,
                           !.totalScore = t] :
           h \in InitHands, e \in BOOLEAN, t \in EndTotals}]
  /\ dealerIndex = 0
  /\ roundNumber = 1
  /\ dealIdx = 1
  /\ activePlayers = <<>>
  /\ turnIdx = 1
  /\ roundEndedByFlip7 = FALSE
  /\ flip7Winner = NoPlayer
  /\ stack = <<>>
  /\ ret = NoRet
  /\ ans = ""
  /\ event = NoEvent
  /\ roundScore = [p \in Players |-> 0]
  /\ draws = 0
  /\ clients = StartClients
  /\ promise = NoPromise

\* Scoring, the loop of Game.start and the start of the round after.
EndNext ==
  \/ Scoring
  \/ AfterRound
  \/ PlayRoundStart

EndSpec == EndInit /\ [][EndNext]_vars

\* ------------------------------------------------ the advisor on its own
\* The kinds of card of the draw piles the advisor is asked about.
AdviceCards == {Num(1), Num(7), Mod(X2), Mod(2), Act("Freeze")}

\* The hands of the player who asks.
AdviceHands == {<<>>, <<7>>, <<1, 2, 3, 4, 5, 6>>}

\* The draw piles of at most n cards with no more copies of a card than
\* Deck.build makes.
AdviceDecks(n) ==
  {dk \in UNION {[1..m -> AdviceCards] : m \in 0..n} :
     \A c \in AdviceCards :
       countCards(dk, c.type, c.value) <= countCards(build, c.type, c.value)}

\* Player 1 is at the hit/stay prompt of an interactive game.
AdviceInit ==
  /\ mode = "interactive" /\ autoTarget = DefaultAutoTarget
  /\ deck \in AdviceDecks(AdviceDeckLen)
  /\ discardPile = <<>>
  /\ rpc = "askHit"
  /\ \E h \in AdviceHands, x \in BOOLEAN, sc \in BOOLEAN :
       players = [p \in Players |->
                    IF p = 1
                      THEN [NewPlayer EXCEPT !.numbers = h, !.hasX2 = x,
                                             !.secondChance = sc]
                    ELSE NewPlayer]
  /\ dealerIndex = 0
  /\ roundNumber = 1
  /\ dealIdx = 1
  /\ activePlayers = <<1, 2>>
  /\ turnIdx = 1
  /\ roundEndedByFlip7 = FALSE
  /\ flip7Winner = NoPlayer
  /\ stack = <<>>
  /\ ret = NoRet
  /\ ans = ""
  /\ event = NoEvent
  /\ roundScore = [p \in Players |-> 0]
  /\ draws = 0
  /\ clients = StartClients
  /\ promise = NoPromise

\* lines 518-529: the answer is a request for advice; the advice that is
\* logged is kept in ret.
Advise ==
  /\ rpc = "askHit"
  /\ stack = <<>>
  /\ ans' = "a"
  /\ ret' = computeAdviceForPlayer(players[activePlayers[turnIdx]], deck)
  /\ event' = Ev("IA", activePlayers[turnIdx])
  /\ UNCHANGED << players, deck, discardPile, gameConst, dealerIndex,
                  roundNumber, rpc, dealIdx, activePlayers, turnIdx,
                  roundEndedByFlip7, flip7Winner, stack, roundScore, draws >>

AdviceNext == Advise

AdviceSpec == AdviceInit /\ [][AdviceNext]_vars

\* --------------------------------------------- the TCP decision source
\* What a client may send as the value of an input message.
NetAnswers == HitStayAnswers \cup UseAnswers \cup TargetAnswers

\* The variables of the game that the decision source does not touch.
netConst ==
  << players, deck, discardPile, mode, autoTarget, dealerIndex, roundNumber,
     dealIdx, activePlayers, roundEndedByFlip7, flip7Winner, stack, ret,
     roundScore, draws >>

\* getClientByName finding every client
getClientByNameAny(name) == clients

\* net/server.js getClientByName: the joined clients of that name.
getClientByName(name) == {c \in clients : c.name = name}

\* tryStartGame lines 146-155: an interactive game whose io is the server's
\* has started; the round is at the turn of player 1.
NetInit ==
  /\ mode = "interactive" /\ autoTarget = DefaultAutoTarget
  /\ deck \in Decks(DeckLen)
  /\ discardPile = <<>>
  /\ rpc = "turn"
  /\ players = [p \in Players |-> NewPlayer]
  /\ dealerIndex = 0
  /\ roundNumber = 1
  /\ dealIdx = 1
  /\ activePlayers = <<1, 2>>
  /\ turnIdx = 1
  /\ roundEndedByFlip7 = FALSE
  /\ flip7Winner = NoPlayer
  /\ stack = <<>>
  /\ ret = NoRet
  /\ ans = ""
  /\ event = NoEvent
  /\ roundScore = [p \in Players |-> 0]
  /\ draws = 0
  /\ clients = StartClients
  /\ promise = NoPromise

\* Game.ask (part_000 lines 161-166) through io.ask, askClient lines 38-49:
\* the game asks the player whose turn it is and awaits the Promise.
askClient ==
  /\ rpc = "turn"
  /\ promise.state = "none"
  /\ LET name == activePlayers[turnIdx]
     IN IF getClientByName(name) = {}
          THEN /\ promise' = Promise("resolved", name)
               /\ ans' = "s"
               /\ clients' = clients
        ELSE /\ promise' = Promise("pending", name)
             /\ ans' = ""
             /\ clients' = (clients \ getClientByName(name)) \cup {Client(name, TRUE)}
  /\ rpc' = "askHit"
  /\ UNCHANGED << netConst, turnIdx, event >>

\* lines 92-103: an input message of a joined client; it is dropped when the
\* client holds no resolve function.  event is here the last message the
\* server handled: an input that resolved a Promise, or a dropped one.
Input ==
  \E c \in clients, v \in NetAnswers :
    /\ IF c.pendingResolve
         THEN /\ clients' = (clients \ {c}) \cup {Client(c.name, FALSE)}
              /\ promise' = Promise("resolved", promise.who)
              /\ ans' = v
              /\ event' = Ev("input", c.name)
       ELSE /\ event' = Ev("dropped", c.name)
            /\ UNCHANGED << clients, promise, ans >>
    /\ UNCHANGED << netConst, rpc, turnIdx >>

\* lines 108-113: the socket of a client closes
Close ==
  \E c \in clients :
    /\ clients' = clients \ {c}
    /\ UNCHANGED << netConst, rpc, turnIdx, promise, ans, event >>

\* lines 54-90: a new socket joins under a name no client has
Join ==
  \E name \in Players :
    /\ getClientByName(name) = {}
    /\ clients' = clients \cup {Client(name, FALSE)}
    /\ UNCHANGED << netConst, rpc, turnIdx, promise, ans, event >>

\* The await of Game.ask returns the value: the game goes on, to the turn
\* of the same or of another player.
Resume ==
  /\ rpc = "askHit"
  /\ promise.state = "resolved"
  /\ promise' = NoPromise
  /\ rpc' = "turn"
  /\ turnIdx' \in DOMAIN activePlayers
  /\ UNCHANGED << netConst, clients, ans, event >>

NetNext ==
  \/ askClient
  \/ Input
  \/ Close
  \/ Join
  \/ Resume

NetSpec == NetInit /\ [][NetNext]_vars

\* ------------------------------------ the game asking an absent client
\* The game of tryStartGame, interactive, its decisions asked through
\* askClient, when the client of one of the players has gone.  A request
\* to a player who has no client is resolved at once with "s" (line 40);
\* the code that awaits it goes on before the server handles any other
\* message, so the clients stay as they are while it is asked again.
DefaultAnswer == "s"

AbsentInit ==
  /\ mode = "interactive" /\ autoTarget = DefaultAutoTarget
  /\ deck \in Decks(DeckLen)
  /\ discardPile = <<>>
  /\ \/ /\ rpc = "playRound"
        /\ players = [p \in Players |-> NewPlayer]
        /\ dealIdx = 1
     \/ /\ rpc = "deal"
        /\ players \in [Players -> {[NewPlayer EXCEPT !.numbers = h] : h \in InitHands}]
        /\ dealIdx = EXPECTED_PLAYERS
  /\ dealerIndex = 0
  /\ roundNumber = 1
  /\ activePlayers = <<>>
  /\ turnIdx = 1
  /\ roundEndedByFlip7 = FALSE
  /\ flip7Winner = NoPlayer
  /\ stack = <<>>
  /\ ret = NoRet
  /\ ans = ""
  /\ event = NoEvent
  /\ roundScore = [p \in Players |-> 0]
  /\ draws = 0
  /\ clients \in {StartClients} \cup {StartClients \ {c} : c \in StartClients}
  /\ promise = NoPromise

\* The player the outstanding question is put to: playerName of Game.ask
Asked == IF stack # <<>> THEN Top.actor ELSE activePlayers[turnIdx]

\* A question is outstanding and the player it is put to has no client.
AskedAbsent ==
  /\ \/ InApply("askUse") \/ InApply("freezeTarget") \/ InApply("flipTarget")
     \/ (stack = <<>> /\ rpc = "askHit")
  /\ getClientByName(Asked) = {}

\* part_000 lines 515-535 with the default answer: it starts with s, a stay
DefaultHitStay ==
  /\ AskedAbsent
  /\ rpc = "askHit" /\ stack = <<>>
  /\ ans' = DefaultAnswer
  /\ Stay(activePlayers[turnIdx])
  /\ UNCHANGED << gameConst, dealerIndex, roundNumber, dealIdx, activePlayers,
                  roundEndedByFlip7, flip7Winner, ret, roundScore >>

\* lines 346-366 with the default answer: it does not start with y
DefaultUse ==
  /\ AskedAbsent
  /\ InApply("askUse")
  /\ ans' = DefaultAnswer
  /\ Eliminate(Top)
  /\ UNCHANGED << deck, draws, roundVars >>

\* chooseTargetPlayer lines 210-215 with the default answer, then 391-401
DefaultFreezeTarget ==
  /\ AskedAbsent
  /\ InApply("freezeTarget")
  /\ ans' = DefaultAnswer
  /\ IF validChoice(DefaultAnswer, Top.candidates)
       THEN Frozen(Top.candidates[parseInt(DefaultAnswer)])
     ELSE /\ event' = Ev("INVALID", Top.actor)
          /\ UNCHANGED << players, stack, ret >>
  /\ UNCHANGED << deck, draws, discardPile, roundVars >>

\* chooseTargetPlayer lines 210-215 with the default answer, then 428-431
DefaultFlipThreeTarget ==
  /\ AskedAbsent
  /\ InApply("flipTarget")
  /\ ans' = DefaultAnswer
  /\ IF validChoice(DefaultAnswer, Top.candidates)
       THEN FlipThreeBegins(Top.candidates[parseInt(DefaultAnswer)])
     ELSE /\ event' = Ev("INVALID", Top.actor)
          /\ UNCHANGED << players, stack, ret >>
  /\ UNCHANGED << deck, draws, discardPile, roundVars >>

\* The steps of the game but the answers of a client that is not there.
Answered == ~AskedAbsent /\ Next

AbsentNext ==
  \/ Answered
  \/ DefaultHitStay
  \/ DefaultUse
  \/ DefaultFreezeTarget
  \/ DefaultFlipThreeTarget

AbsentSpec == AbsentInit /\ [][AbsentNext]_vars

\* ------------------------------------------------ a log call that throws
\* Game.log (lines 144-150) calls io.log or Logger.log and catches nothing;
\* Logger.log (src/src/Logger.js lines 21-30) writes with fs.appendFileSync,
\* which throws when the write fails.  Nothing in applyCardToPlayer,
\* playRound or start catches either: the exception leaves every call in
\* progress and the game is over, the objects as they were at the throw.
\* These are the log calls of applyCardToPlayer's number branch, lines
\* 336-375.
Throw ==
  /\ stack' = <<>>
  /\ rpc' = "crashed"
  /\ UNCHANGED << deck, draws, gameConst, dealerIndex, roundNumber, dealIdx,
                  activePlayers, turnIdx, roundEndedByFlip7, flip7Winner,
                  roundScore, ret, event >>

\* line 337: "[CARD] ..." is not logged
LogFailsCard ==
  /\ InApply("start")
  /\ ans' = ""
  /\ UNCHANGED << players, discardPile >>
  /\ Throw

\* The running call has come to line 353 with use = a.
AtUse(a) ==
  \/ /\ InApply("start")
     /\ Top.card.type = "number"
     /\ hasNumber(players[Top.player], Top.card.value)
     /\ (players[Top.player].secondChance /\ mode # "interactive") = (a = "y")
     /\ ~(players[Top.player].secondChance /\ mode = "interactive")
     /\ ans' = ""
  \/ /\ InApply("askUse")
     /\ ans' = a

\* lines 354-355: "[SECOND CHANCE] ..." is not logged
LogFailsSecondChance ==
  /\ AtUse("y")
  /\ players' = [players EXCEPT ![Top.player] = useSecondChance(@)]
  /\ UNCHANGED discardPile
  /\ Throw

\* lines 362-364: "[ELIM] ..." is not logged
LogFailsElim ==
  /\ AtUse("n")
  /\ players' = [players EXCEPT ![Top.player] = eliminate(@)]
  /\ UNCHANGED discardPile
  /\ Throw

\* lines 369-373: "[FLIP7] ..." is not logged
LogFailsFlip7 ==
  /\ InApply("start")
  /\ Top.card.type = "number"
  /\ ~hasNumber(players[Top.player], Top.card.value)
  /\ players' = [players EXCEPT ![Top.player] = addNumber(@, Top.card.value)]
  /\ numberResult(players'[Top.player]).flip7
  /\ discardPile' = discard(discardPile, Top.card)
  /\ ans' = ""
  /\ Throw

LogNext ==
  \/ Next
  \/ LogFailsCard
  \/ LogFailsSecondChance
  \/ LogFailsElim
  \/ LogFailsFlip7

LogSpec == Init /\ [][LogNext]_vars

\* ================================================================== claims
\* The running call returns in this step.
Finished == stack # <<>> /\ Len(stack') = Len(stack) - 1

\* A decision request is outstanding.
Asking ==
  \/ InApply("askUse") \/ InApply("freezeTarget") \/ InApply("flipTarget")
  \/ (stack = <<>> /\ rpc = "askHit")

\* The part of a player's state a round builds up and scoring reads.
RoundState(p) ==
  << players[p].numbers, players[p].hasX2, players[p].plusBonus,
     players[p].active, players[p].eliminated >>

HasSeven(p) == countDistinctNumbers(players[p]) >= Flip7Count

\* A bonus event has been returned in the round being played and the round
\* is not scored yet.
BonusRaised ==
  /\ rpc \in {"deal", "dealRet", "loopTop", "turn", "askHit", "hitRet", "scoring"}
  /\ ret.flip7 \/ roundEndedByFlip7

\* ---- C1
\* C1: when a round ended by the bonus event has been scored, exactly one
\* player holds 7 distinct numbers and the +15 term is in that player's round
\* score and in nobody else's.
C1_BonusGoesToSevenHolder ==
  (rpc = "roundEnd" /\ roundEndedByFlip7) =>
    /\ Cardinality({p \in Players : HasSeven(p)}) = 1
    /\ \A p \in Players :
         roundScore[p] =
           (IF players[p].eliminated THEN 0
            ELSE Sum(players[p].numbers) * (IF players[p].hasX2 THEN 2 ELSE 1)
                 + players[p].plusBonus + (IF HasSeven(p) THEN Flip7Bonus ELSE 0))

DupWithSecondChance ==
  /\ stack # <<>>
  /\ Top.pc \in {"start", "askUse"}
  /\ Top.card.type = "number"
  /\ hasNumber(players[Top.player], Top.card.value)
  /\ players[Top.player].secondChance

\* The duplicate was cancelled: numbers as before, second chance gone, still
\* active and not eliminated, alive=true and no bonus event returned.
DupCancelled(p) ==
  /\ players'[p] = [players[p] EXCEPT !.secondChance = FALSE]
  /\ players[p].active /\ ~players[p].eliminated
  /\ ret' = Result(TRUE, FALSE)

\* C3 as stated: every application of a duplicate Number to a player holding
\* a second chance cancels the duplicate.
C3_AlwaysCancelled ==
  [][DupWithSecondChance /\ Finished => DupCancelled(Top.player)]_vars

\* C3 amended: the duplicate is cancelled when the second chance is used, which
\* is always in auto mode and on an answer "y" in interactive mode; on any
\* other answer the player is eliminated, keeps the flag and alive=false is
\* returned.
C3_CancelledWhenUsed ==
  [][DupWithSecondChance /\ Finished =>
       IF mode = "auto" \/ ans' = "y"
         THEN DupCancelled(Top.player)
       ELSE /\ players'[Top.player] =
                 [players[Top.player] EXCEPT !.active = FALSE, !.eliminated = TRUE]
            /\ ret' = Result(FALSE, FALSE)
    ]_vars

\* A player has just answered "y" and the duplicate was cancelled.
C3_Witness ==
  /\ ans = "y" /\ event.tag = "SECOND CHANCE"
  /\ players[event.who].active /\ ~players[event.who].secondChance
  /\ ret = Result(TRUE, FALSE)

\* ---- C4
\* C4: applying a Number the player already holds, without a second chance,
\* sets eliminated and clears active, leaves every other field of every
\* player, puts the card on the discard pile and returns alive=false without
\* bonus event; the player's round score is then 0.
C4_DuplicateEliminates ==
  [][(/\ InApply("start")
      /\ Top.card.type = "number"
      /\ hasNumber(players[Top.player], Top.card.value)
      /\ ~players[Top.player].secondChance)
     =>
       /\ players' = [players EXCEPT ![Top.player] =
                        [@ EXCEPT !.active = FALSE, !.eliminated = TRUE]]
       /\ discardPile' = Append(discardPile, Top.card)
       /\ deck' = deck
       /\ Finished
       /\ ret' = Result(FALSE, FALSE)
       /\ computeRoundScore(players'[Top.player], FALSE) = 0
       /\ computeRoundScore(players'[Top.player], TRUE) = 0
    ]_vars

\* A player holding numbers and a doubler or bonus has just been eliminated.
C4_Witness ==
  /\ event.tag = "ELIM"
  /\ players[event.who].eliminated
  /\ players[event.who].numbers # <<>>
  /\ ~players[event.who].secondChance
  /\ ret = Result(FALSE, FALSE)

\* ---- C5
\* C5 as stated: a new Number returns a bonus event exactly when the player
\* then holds at least 7 numbers, and no application returns a bonus event
\* for a player who holds fewer than 7 after it.
C5_BonusOnlyForSevenHolder ==
  [][Finished =>
       /\ (Top.pc = "start" /\ Top.card.type = "number"
             /\ ~hasNumber(players[Top.player], Top.card.value))
          => (ret'.flip7 <=> countDistinctNumbers(players'[Top.player]) >= Flip7Count)
       /\ ret'.flip7 => countDistinctNumbers(players'[Top.player]) >= Flip7Count
    ]_vars

\* C5 amended: a new Number returns a bonus event exactly when the player
\* then holds at least 7 numbers; a Number or Modifier application returns a
\* bonus event only for a player who then holds at least 7; an Action
\* application returns one only as the result of a nested application, so
\* some player then holds at least 7.
C5_BonusExactlyAtSeven ==
  [][Finished =>
       /\ (Top.pc = "start" /\ Top.card.type = "number"
             /\ ~hasNumber(players[Top.player], Top.card.value))
          => /\ ret'.flip7 <=> countDistinctNumbers(players'[Top.player]) >= Flip7Count
             /\ countDistinctNumbers(players'[Top.player])
                  = countDistinctNumbers(players[Top.player]) + 1
       /\ (ret'.flip7 /\ Top.card.type # "action")
          => countDistinctNumbers(players'[Top.player]) >= Flip7Count
       /\ (ret'.flip7 /\ Top.card.type = "action")
          => /\ ret.flip7
             /\ \E q \in Players : countDistinctNumbers(players'[q]) >= Flip7Count
    ]_vars

\* A seventh number has just been applied and the bonus event returned.
C5_Witness ==
  /\ event.tag = "FLIP7"
  /\ countDistinctNumbers(players[event.who]) = Flip7Count
  /\ ret.flip7

\* ---- C6
\* The sum of a finite set of numbers.
RECURSIVE SetSum(_)
SetSum(S) == IF S = {} THEN 0 ELSE LET x == CHOOSE y \in S : TRUE IN x + SetSum(S \ {x})

\* The round score as the specification words it, numbers being a set.
ScoreFormula(p, flip7) ==
  IF p.eliminated THEN 0
  ELSE SetSum({p.numbers[i] : i \in 1..Len(p.numbers)}) * (IF p.hasX2 THEN 2 ELSE 1)
       + p.plusBonus + (IF flip7 THEN Flip7Bonus ELSE 0)

ExamplePlayer == [NewPlayer EXCEPT !.numbers = <<3, 5>>, !.hasX2 = TRUE, !.plusBonus = 4]

\* C6: for every player state of the game and both values of flip7Bonus,
\* computeRoundScore is 0 for an eliminated player and otherwise the sum of
\* the numbers, doubled only with the doubler, plus the bonus, plus 15 with
\* flip7Bonus; numbers {3,5}, doubler, bonus 4 give 20, and 35 with the event.
C6_RoundScoreFormula ==
  /\ \A p \in Players : \A b \in BOOLEAN :
       computeRoundScore(players[p], b) = ScoreFormula(players[p], b)
  /\ computeRoundScore(ExamplePlayer, FALSE) = 20
  /\ computeRoundScore(ExamplePlayer, TRUE) = 35
  /\ computeRoundScore([ExamplePlayer EXCEPT !.eliminated = TRUE], TRUE) = 0

\* A round has been scored for a player holding numbers, the doubler and a
\* bonus, next to an eliminated player who holds numbers.
C6_Witness ==
  /\ rpc = "roundEnd"
  /\ \E p \in Players :
       /\ ~players[p].eliminated /\ players[p].hasX2
       /\ players[p].plusBonus > 0 /\ players[p].numbers # <<>>
       /\ roundScore[p] = 2 * Sum(players[p].numbers) + players[p].plusBonus

\* ---- C7
\* C7: in every state, a player who is eliminated is not active.
C7_EliminatedNotActive ==
  \A p \in Players : players[p].eliminated => ~players[p].active

\* One player is eliminated while another one is inactive (stayed) without
\* being eliminated.
C7_Witness ==
  \E p, q \in Players :
    /\ players[p].eliminated /\ ~players[p].active
    /\ ~players[q].active /\ ~players[q].eliminated

\* ---- C8
\* C8: whenever an apply call returns alive=true, the player it was applied
\* to is active and not eliminated.
C8_AliveMeansActive ==
  [][(Finished /\ ret'.alive) =>
       players'[Top.player].active /\ ~players'[Top.player].eliminated]_vars

\* ---- C9
\* This step applies the effect of Freeze to target t: the only candidate,
\* or the candidate the answer names.
FreezeHits(t) ==
  \/ /\ InApply("start")
     /\ Top.card.type = "action" /\ Top.card.value = "Freeze"
     /\ candidatesOf(players) = <<t>>
  \/ /\ InApply("freezeTarget")
     /\ validChoice(ans', Top.candidates)
     /\ Top.candidates[parseInt(ans')] = t

\* C9: Freeze leaves its target with no numbers, no doubler, bonus 0, no
\* second chance, inactive and eliminated, and changes neither the target's
\* total nor anything of any other player.
C9_FreezeResetsTargetOnly ==
  [][\A t \in Players :
       FreezeHits(t) =>
         /\ players'[t] = [active |-> FALSE, eliminated |-> TRUE, numbers |-> <<>>,
                           hasX2 |-> FALSE, plusBonus |-> 0, secondChance |-> FALSE,
                           totalScore |-> players[t].totalScore]
         /\ \A q \in Players \ {t} : players'[q] = players[q]
    ]_vars

\* A chosen target has just been frozen while the other player holds numbers
\* and is still active.
C9_Witness ==
  /\ event.tag = "FREEZE"
  /\ ans \in {"1", "2"}
  /\ \E q \in Players \ {event.who} : players[q].active /\ players[q].numbers # <<>>

\* ---- C10
\* C10: a SecondChance applied to a player holding none sets the flag and, in
\* the same step, draws one card and starts applying it to the same player
\* (nothing else changes and no decision is requested in between); when that
\* nested call has returned, the outer call returns its result unchanged.
C10_SecondChanceExtraDraw ==
  [][/\ (/\ InApply("start")
         /\ Top.card.type = "action" /\ Top.card.value = "SecondChance"
         /\ ~players[Top.player].secondChance)
        =>
          /\ players' = [players EXCEPT ![Top.player].secondChance = TRUE]
          /\ draws' = draws + 1
          /\ Len(stack') = Len(stack) + 1
          /\ stack'[Len(stack)] = [Top EXCEPT !.pc = "scRet"]
          /\ SubSeq(stack', 1, Len(stack) - 1) = Front(stack)
          /\ stack'[Len(stack')] = Frame(Top.player, stack'[Len(stack')].card, Top.actor)
          /\ deck # <<>> =>
               /\ stack'[Len(stack')].card = Last(deck)
               /\ deck' = Front(deck)
               /\ discardPile' = Append(discardPile, Top.card)
          /\ Len(deck') + Len(discardPile') = Len(deck) + Len(discardPile)
          /\ ret' = ret
     /\ InApply("scRet") =>
          /\ Finished
          /\ ret' = ret
          /\ UNCHANGED << players, deck, discardPile, draws, rpc >>
    ]_vars

\* The extra card eliminated the player and the SecondChance call is about
\* to return that result.
C10_Witness ==
  /\ InApply("scRet")
  /\ ~ret.alive
  /\ players[Top.player].eliminated

\* ---- C11
\* Arrays of three players, by the two fields players.find reads.
ThreePlayerArrays == [1..3 -> [active : BOOLEAN, secondChance : BOOLEAN]]

\* The players of array pl who are active and hold no second chance.
Eligible(pl) == {q \in DOMAIN pl : pl[q].active /\ ~pl[q].secondChance}

TopAfter == stack'[Len(stack)]

\* C12: the FlipThree loop is at iteration i after i-1 draws; a card is drawn
\* for the target only in iterations 1..3, while the target is active and
\* nobody holds 7 numbers; the loop is left without a draw only after three
\* draws or with the target inactive (never for want of a card); after a
\* nested application it goes on only if the target is alive and no bonus
\* event was returned.
C12_FlipThreeDrawsThree ==
  [][/\ InApply("flipLoop") =>
          /\ Top.i \in 1..(FlipThreeDraws + 1)
          /\ IF draws' # draws
               THEN /\ draws' = draws + 1
                    /\ Top.i <= FlipThreeDraws
                    /\ players[Top.target].active
                    /\ \A q \in Players : ~HasSeven(q)
                    /\ \/ /\ Len(stack') = Len(stack) + 1
                          /\ stack'[Len(stack')].player = Top.target
                          /\ stack'[Len(stack')].card.type # "action"
                          /\ TopAfter = [Top EXCEPT !.pc = "flipRet"]
                       \/ /\ Len(stack') = Len(stack)
                          /\ TopAfter.pc = "flipLoop"
                          /\ TopAfter.i = Top.i + 1
                          /\ Len(TopAfter.pendingActions) = Len(Top.pendingActions) + 1
             ELSE /\ Len(stack') = Len(stack)
                  /\ TopAfter.pc = "pendLoop"
                  /\ Top.i = FlipThreeDraws + 1 \/ ~players[Top.target].active
     /\ InApply("flipRet") =>
          /\ draws' = draws
          /\ IF ret.alive /\ ~ret.flip7
               THEN /\ players[Top.target].active
                    /\ TopAfter = [Top EXCEPT !.pc = "flipLoop", !.i = @ + 1]
             ELSE ~(Len(stack') = Len(stack) /\ TopAfter.pc = "flipLoop")
    ]_vars

\* A sequence has come to its end after three draws with its target active.
C12_Witness ==
  /\ InApply("pendLoop")
  /\ Top.i = FlipThreeDraws + 1
  /\ players[Top.target].active
  /\ \A q \in Players : ~HasSeven(q)

\* ---- C13
\* C13: an Action card drawn in a FlipThree sequence changes no player and
\* starts no application; it is appended to the deferred actions, which no
\* other step of the call changes.  After the sequence the deferred actions
\* are applied one at a time from the first drawn on, each to the active
\* player of lowest index at that moment, on behalf of the same actor.
C13_DeferredInDrawOrder ==
  [][/\ InApply("flipLoop") =>
          IF Len(stack') = Len(stack) /\ TopAfter.pc = "flipLoop"
            THEN /\ players' = players
                 /\ Len(TopAfter.pendingActions) = Len(Top.pendingActions) + 1
                 /\ Front(TopAfter.pendingActions) = Top.pendingActions
                 /\ Last(TopAfter.pendingActions).type = "action"
                 /\ deck # <<>> => Last(TopAfter.pendingActions) = Last(deck)
          ELSE /\ TopAfter.pendingActions = Top.pendingActions
               /\ Len(stack') = Len(stack) + 1 => stack'[Len(stack')].card.type # "action"
               /\ TopAfter.pc = "pendLoop" => TopAfter.k = 1
     /\ InApply("flipRet") =>
          \/ Finished
          \/ /\ TopAfter.pendingActions = Top.pendingActions
             /\ TopAfter.pc = "pendLoop" => TopAfter.k = 1
     /\ InApply("pendLoop") =>
          /\ players' = players
          /\ IF Top.k <= Len(Top.pendingActions) /\ \E q \in Players : players[q].active
               THEN /\ Len(stack') = Len(stack) + 1
                    /\ TopAfter = [Top EXCEPT !.pc = "pendRet"]
                    /\ stack'[Len(stack')].card = Top.pendingActions[Top.k]
                    /\ stack'[Len(stack')].actor = Top.actor
                    /\ stack'[Len(stack')].pc = "start"
                    /\ players[stack'[Len(stack')].player].active
                    /\ \A q \in Players :
                         players[q].active => stack'[Len(stack')].player <= q
             ELSE Finished
     /\ InApply("pendRet") =>
          \/ Finished
          \/ TopAfter = [Top EXCEPT !.pc = "pendLoop", !.k = @ + 1]
    ]_vars

\* The second of the deferred actions of a sequence is about to be applied,
\* the first one having been applied before.
C13_Witness ==
  /\ Len(stack) >= 2
  /\ Top.pc = "start"
  /\ stack[Len(stack) - 1].pc = "pendRet"
  /\ stack[Len(stack) - 1].k = 2
  /\ Top.card = stack[Len(stack) - 1].pendingActions[2]

\* ---- C14
\* A FlipThree call returns in this step.
FlipThreeReturns ==
  /\ Finished
  /\ Top.card.type = "action" /\ Top.card.value = "FlipThree"
  /\ Top.pc \in {"flipRet", "pendLoop", "pendRet"}

\* Every deferred action of the running FlipThree call has been applied.
AllDeferredResolved ==
  \/ Top.pc = "flipRet" /\ Top.pendingActions = <<>>
  \/ Top.pc = "pendLoop" /\ Top.k > Len(Top.pendingActions)
  \/ Top.pc = "pendRet" /\ Top.k = Len(Top.pendingActions)

\* C14 as stated: a FlipThree call returns only with every deferred action
\* applied, also when its sequence ended on an elimination or a bonus event.
C14_AllDeferredResolved ==
  [][FlipThreeReturns => AllDeferredResolved]_vars

\* C14 amended: a FlipThree call returns with deferred actions left unapplied
\* only when the sequence ended on a bonus event, when an applied deferred
\* action returned a bonus event, or when no player is active; a sequence
\* that ended on the elimination of its target goes on to the deferred
\* actions.
C14_DeferredResolvedUnlessOver ==
  [][/\ FlipThreeReturns =>
          \/ AllDeferredResolved
          \/ Top.pc \in {"flipRet", "pendRet"} /\ ret.flip7
          \/ Top.pc = "pendLoop" /\ \A q \in Players : ~players[q].active
     /\ (InApply("flipRet") /\ ~ret.alive) =>
          /\ Len(stack') = Len(stack)
          /\ TopAfter = [Top EXCEPT !.pc = "pendLoop", !.k = 1]
    ]_vars

\* The target of a sequence was eliminated before its third card, and the
\* action deferred before that is being applied to the other player.
C14_Witness ==
  /\ Len(stack) >= 2
  /\ Top.pc = "start"
  /\ stack[Len(stack) - 1].pc = "pendRet"
  /\ stack[Len(stack) - 1].i <= FlipThreeDraws
  /\ players[stack[Len(stack) - 1].target].eliminated
  /\ Top.player # stack[Len(stack) - 1].target

\* ---- C15
\* The number of cards c in pile s.
CountOf(s, c) == Cardinality({i \in 1..Len(s) : s[i] = c})

\* C15 as stated: one build of the deck produces exactly 93 cards.
C15_Builds93 == rpc = "built" => Len(deck) = 93

\* C15 amended: one build of the deck produces exactly 94 cards.
C15_Builds94 == rpc = "built" => Len(deck) = 94

\* A deck has just been built.
C15_Witness == rpc = "built" /\ event.tag = "build" /\ deck # <<>>

\* ---- C16
\* C16: the built deck holds v Number cards of every value v in 1..12, one
\* Number 0, three each of Freeze, FlipThree and SecondChance, one x2 and one
\* each of +2, +4, +6, +8, +10, and no other card.
C16_DeckComposition ==
  rpc = "built" =>
    /\ \A v \in 1..12 : CountOf(deck, Num(v)) = v
    /\ CountOf(deck, Num(0)) = 1
    /\ \A a \in {"Freeze", "FlipThree", "SecondChance"} : CountOf(deck, Act(a)) = 3
    /\ CountOf(deck, Mod(X2)) = 1
    /\ \A v \in {2, 4, 6, 8, 10} : CountOf(deck, Mod(v)) = 1
    /\ \A i \in 1..Len(deck) :
         \/ deck[i].type = "number" /\ deck[i].value \in 0..12
         \/ deck[i].type = "action"
              /\ deck[i].value \in {"Freeze", "FlipThree", "SecondChance"}
         \/ deck[i].type = "modifier" /\ deck[i].value \in {X2, 2, 4, 6, 8, 10}

\* The built deck, from its first card, a 12, to its last, the +10.
C16_Witness ==
  /\ rpc = "built"
  /\ deck[1] = Num(12)
  /\ deck[Len(deck)] = Mod(10)

\* ---- C17
\* C17: whatever the random choices, shuffle leaves the draw pile with the
\* same length and the same number of copies of every card, and leaves the
\* discard pile alone.
C17_ShufflePreservesCards ==
  [][(rpc = "pile" /\ event'.tag = "shuffle") =>
       /\ Len(deck') = Len(deck)
       /\ \A c \in PileCards : CountOf(deck', c) = CountOf(deck, c)
       /\ discardPile' = discardPile
    ]_vars

\* A pile of three cards, not all the same, has just been shuffled.
C17_Witness ==
  /\ rpc = "pile" /\ event.tag = "shuffle"
  /\ Len(deck) = 3
  /\ deck[1] # deck[3]

\* ---- C18
\* C18: drawCard on a non-empty draw pile returns its last card and removes
\* just that card; on an empty draw pile and a non-empty discard pile it
\* returns one of the discarded cards, leaves the others as the draw pile and
\* empties the discard pile; with both empty it returns no card and changes
\* nothing.  Neither shuffle nor discard lengthens the draw pile, and in the
\* game the draw pile changes only in a draw, and grows only from empty and
\* by cards of the discard pile.
C18_DrawCard ==
  [][/\ (rpc = "pile" /\ event'.tag = "draw") =>
          IF deck # <<>>
            THEN /\ ret' = <<Last(deck)>>
                 /\ deck' = Front(deck)
                 /\ discardPile' = discardPile
          ELSE IF discardPile # <<>>
            THEN /\ Len(ret') = 1
                 /\ discardPile' = <<>>
                 /\ Len(deck') = Len(discardPile) - 1
                 /\ \A c \in PileCards :
                      CountOf(deck' \o ret', c) = CountOf(discardPile, c)
          ELSE /\ ret' = <<>>
               /\ deck' = deck
               /\ discardPile' = discardPile
     /\ (rpc = "pile" /\ event'.tag # "draw") => Len(deck') = Len(deck)
     /\ rpc \notin {"new", "built", "pile"} =>
          IF draws' = draws THEN deck' = deck
          ELSE IF deck # <<>> THEN deck' = Front(deck)
          ELSE Len(deck') <= Len(discardPile)
    ]_vars

\* A draw has just found both piles empty.
C18_Witness ==
  /\ rpc = "pile" /\ event.tag = "draw"
  /\ ret = <<>>
  /\ deck = <<>> /\ discardPile = <<>>

\* ---- C19
\* The hit/stay question is outstanding.
AskedHitStay == rpc = "askHit" /\ stack = <<>>

\* Nothing of the game changes and the same question is outstanding again.
AskedAgain ==
  /\ UNCHANGED << players, deck, discardPile, draws, stack, turnIdx, activePlayers,
                  roundEndedByFlip7, flip7Winner >>
  /\ rpc' = "askHit"

\* C19 as stated: an answer that is none of h, s, a draws no card, changes
\* nothing and has the same player asked again.
C19_MalformedAskedAgain ==
  [][(AskedHitStay /\ ans' \notin {"h", "s", "a"}) => AskedAgain]_vars

\* C19 amended: only the advice answer changes nothing and has the same
\* player asked again; the stay answer makes the player inactive without a
\* draw; every other answer, malformed ones included, is a hit: one card is
\* drawn and its application to the player starts.
C19_MalformedIsHit ==
  [][AskedHitStay =>
       LET p == activePlayers[turnIdx]
       IN IF ans' = "a" THEN AskedAgain
          ELSE IF ans' = "s"
            THEN /\ players' = [players EXCEPT ![p].active = FALSE]
                 /\ UNCHANGED << deck, discardPile, draws, stack >>
                 /\ rpc' = "turn"
          ELSE /\ draws' = draws + 1
               /\ players' = players
               /\ Len(stack') = 1
               /\ stack'[1] = Frame(p, stack'[1].card, p)
               /\ deck # <<>> => stack'[1].card = Last(deck) /\ deck' = Front(deck)
               /\ rpc' = "hitRet"
    ]_vars

\* The answer "x" has just made the player draw a card.
C19_Witness ==
  /\ ans = "x"
  /\ rpc = "hitRet"
  /\ event.tag = "HIT"
  /\ Len(stack) = 1

\* ---- C20
\* The answers that are numbers, as written.
Numerals == {"0", "1", "2", "3"}

\* The running call is at a target request with this step's answer.
TargetAsked == InApply("freezeTarget") \/ InApply("flipTarget")

\* The target this step selects for the running Freeze or FlipThree is t.
Selects(t) ==
  \/ /\ Top.card.value = "Freeze"
     /\ Finished
     /\ players' = [players EXCEPT ![t] = freeze(@)]
  \/ /\ Top.card.value = "FlipThree"
     /\ Len(stack') = Len(stack)
     /\ TopAfter.pc = "flipLoop" /\ TopAfter.target = t
     /\ players' = players

\* C20: a Freeze or FlipThree finds at least one active player; with exactly
\* one it selects that player without a request, otherwise it requests an
\* index from the actor and changes nothing.  An answer that is not a number
\* or is a number outside 1..|candidates| changes nothing and leaves the same
\* request outstanding; any other answer selects the candidate of that index.
C20_TargetSelection ==
  [][/\ (/\ InApply("start") /\ Top.card.type = "action"
         /\ Top.card.value \in {"Freeze", "FlipThree"})
        => LET cands == candidatesOf(players)
           IN /\ Len(cands) >= 1
              /\ IF Len(cands) = 1 THEN Selects(cands[1])
                 ELSE /\ TopAfter = [Top EXCEPT
                            !.pc = IF Top.card.value = "Freeze"
                                     THEN "freezeTarget" ELSE "flipTarget",
                            !.candidates = cands]
                      /\ Len(stack') = Len(stack)
                      /\ players' = players
     /\ TargetAsked =>
          IF ans' \in Numerals /\ parseInt(ans') \in 1..Len(Top.candidates)
            THEN /\ Selects(Top.candidates[parseInt(ans')])
                 /\ players[Top.candidates[parseInt(ans')]].active
          ELSE UNCHANGED << players, deck, discardPile, draws, stack >>
    ]_vars

\* ---- C21
\* C21: a player's total changes only in the scoring step, which adds the
\* player's round score, a number that is not negative; scoring happens
\* once per round, being followed by the end of the round; no other step
\* (deal, hit, stay, action, advice, start of a round) changes a total.
C21_TotalChangesAtScoringOnly ==
  [][\A p \in Players :
       IF rpc = "scoring"
         THEN /\ players'[p].totalScore = players[p].totalScore + roundScore'[p]
              /\ roundScore'[p] =
                   computeRoundScore(players[p], flip7Winner # NoPlayer /\ flip7Winner = p)
              /\ roundScore'[p] >= 0
              /\ rpc' = "roundEnd"
       ELSE /\ players'[p].totalScore = players[p].totalScore
            /\ rpc' = "scoring" =>
                 rpc \in {"dealRet", "loopTop", "hitRet"}
    ]_vars

\* The second round of a game has been scored, on top of a total from the
\* first.
C21_Witness ==
  /\ rpc = "roundEnd" /\ roundNumber = 2
  /\ \E p \in Players :
       roundScore[p] > 0 /\ players[p].totalScore > roundScore[p]

\* ---- C22
\* C22: after a round is scored the game starts a further round exactly
\* when no total is 200 or more; otherwise it stops and declares a winner
\* whose total is at least every player's total; nothing happens once it
\* has stopped.
C22_PlaysOnBelow200 ==
  [][/\ rpc # "gameOver"
     /\ rpc = "roundEnd" =>
          IF \E p \in Players : players[p].totalScore >= 200
            THEN /\ rpc' = "gameOver"
                 /\ event'.tag = "WINNER"
                 /\ \A q \in Players :
                      players[event'.who].totalScore >= players[q].totalScore
                 /\ players' = players
          ELSE /\ rpc' = "playRound"
               /\ roundNumber' = roundNumber + 1
     /\ rpc' = "playRound" => rpc = "roundEnd"
    ]_vars

\* The game has stopped on a total of exactly 200, the winner being the
\* player who holds it.
C22_Witness ==
  /\ rpc = "gameOver" /\ event.tag = "WINNER"
  /\ players[event.who].totalScore = 200
  /\ \E q \in Players : players[q].totalScore < 200

\* ---- C23
\* The player at the hit/stay prompt.
Asker == activePlayers[turnIdx]

\* C23: a request for advice at the hit/stay prompt changes no player, not
\* the draw pile, not the discard pile and nothing else of the round; the
\* same player is at the same prompt afterwards, and the advice computed
\* after it is the advice computed before it.
C23_AdviceChangesNothing ==
  [][(rpc = "askHit" /\ stack = <<>> /\ ans' = "a") =>
       /\ players' = players /\ deck' = deck /\ discardPile' = discardPile
       /\ roundScore' = roundScore /\ dealerIndex' = dealerIndex
       /\ roundEndedByFlip7' = roundEndedByFlip7 /\ flip7Winner' = flip7Winner
       /\ rpc' = "askHit" /\ stack' = <<>>
       /\ activePlayers' = activePlayers /\ turnIdx' = turnIdx
       /\ computeAdviceForPlayer(players'[Asker'], deck')
            = computeAdviceForPlayer(players[Asker], deck)
    ]_vars

\* Advice has been given to a player who holds numbers, on a draw pile
\* that is not empty.
C23_Witness ==
  /\ rpc = "askHit" /\ stack = <<>> /\ ans = "a" /\ event.tag = "IA"
  /\ players[Asker].numbers # <<>> /\ deck # <<>>

\* ---- C24
\* C24: whenever the engine applies a Number or Modifier card to an active
\* player and the application returns (the second chance being used when
\* the player is asked), the score the advisor works out for that card from
\* the state before equals the round score of the player after, with the
\* 15 points exactly when the application reports the seventh number.
C24_VirtualDrawIsRealDraw ==
  [][(/\ stack # <<>>
      /\ Top.pc \in {"start", "askUse"}
      /\ Top.card.type \in {"number", "modifier"}
      /\ players[Top.player].active
      /\ Len(stack') < Len(stack)
      /\ Top.pc = "askUse" => ans' = "y") =>
       scoreAfterVirtualDraw(players[Top.player], Top.card.type, Top.card.value)
         = computeRoundScore(players'[Top.player], ret'.flip7)
    ]_vars

\* A hit has brought the seventh number.
C24_Witness ==
  /\ rpc = "hitRet" /\ stack = <<>> /\ ret.flip7
  /\ Len(players[Asker].numbers) = 7

\* ---- C25
\* The sum over the cards dk[i..] of the score after each, an action card
\* counting for the score of a stay.
RECURSIVE SumAfterFrom(_, _, _)
SumAfterFrom(p, dk, i) ==
  IF i > Len(dk) THEN 0
  ELSE (IF dk[i].type = "action" THEN computeRoundScore(p, FALSE)
        ELSE scoreAfterVirtualDraw(p, dk[i].type, dk[i].value))
       + SumAfterFrom(p, dk, i + 1)

SumAfter(p, dk) == SumAfterFrom(p, dk, 1)

\* Advice has just been given on a draw pile that is not empty.
Advised ==
  /\ rpc = "askHit" /\ stack = <<>> /\ ans = "a" /\ event.tag = "IA"
  /\ deck # <<>>

\* C25: for a draw pile of N >= 1 cards, N times the expectation of a hit
\* is the sum over the cards of the pile of the score after each.
C25_ExpectationIsMean ==
  Advised =>
    fmul(expectedHitScore(players[Asker], deck), Len(deck))
      = fromInt(SumAfter(players[Asker], deck))

\* ---- C26
\* C26: on a draw pile of N >= 1 cards the advisor suggests HIT exactly
\* when the sum over the pile of the score after each card is more than
\* N times the score of a stay; a tie is a STAY.
C26_HitIffBetter ==
  Advised =>
    (ret.suggestion = "HIT"
       <=> SumAfter(players[Asker], deck)
             > Len(deck) * computeRoundScore(players[Asker], FALSE))

\* ---- C27
\* C27: when the advisor answers STAY to an active player because the
\* draw pile is empty, a hit of that player gets no card.
C27_EmptyPileNoCard ==
  (/\ rpc = "askHit" /\ stack = <<>>
   /\ players[Asker].active
   /\ computeAdviceForPlayer(players[Asker], deck).reason = "no cards") =>
    \A o \in drawCard(deck, discardPile) : o.card = <<>>

\* ---- C28
\* The positions of a call that awaits an answer.
AskPcs == {"askUse", "freezeTarget", "flipTarget"}

\* The number of decision requests that await their answer: the calls in
\* progress that stand at a question, and the hit/stay question of playRound.
Outstanding ==
  Cardinality({i \in DOMAIN stack : stack[i].pc \in AskPcs})
    + (IF rpc = "askHit" THEN 1 ELSE 0)

\* C28: at most one decision request is outstanding at any moment; while
\* one is outstanding the only step is the arrival of its answer, and no
\* step takes an answer when none is outstanding.
C28_OneRequestAtATime ==
  /\ [](Outstanding <= 1)
  /\ [][IF Outstanding = 1
          THEN ans' \in HitStayAnswers \cup UseAnswers \cup TargetAnswers
        ELSE ans' = ""]_vars

\* A request is outstanding inside a nested call: the player who got a
\* duplicate in a FlipThree sequence is asked about the second chance.
C28_Witness ==
  /\ Len(stack) >= 2 /\ Top.pc = "askUse"
  /\ Outstanding = 1

\* ---- C29
\* C29: every request made through the TCP decision source is answered:
\* a request to a player who has no client is resolved at once with the
\* default "s" (stay), and when the client of the asked player goes while
\* the request is pending, that step resolves the request with "s".
C29_RequestIsAnswered ==
  [][/\ (promise.state = "none" /\ promise'.state # "none"
          /\ \A c \in clients : c.name # promise'.who)
        => (promise'.state = "resolved" /\ ans' = "s")
     /\ (promise.state = "pending"
          /\ \A c \in clients' : c.name # promise.who)
        => (promise'.state = "resolved" /\ ans' = "s")]_vars

\* ---- C30
\* The players a step of applyCardToPlayer on the number or modifier card
\* of call f leaves when its log calls succeed and it discards the card.
AppliedPlayers(f) ==
  LET p == players[f.player]
      after == IF f.card.type = "modifier" THEN {applyModifier(p, f.card.value)}
               ELSE IF ~hasNumber(p, f.card.value) THEN {addNumber(p, f.card.value)}
               ELSE IF p.secondChance THEN {useSecondChance(p), eliminate(p)}
               ELSE {eliminate(p)}
  IN {[players EXCEPT ![f.player] = q] : q \in after}

\* C30: a step of applyCardToPlayer in which a log call fails leaves the
\* players, the draw pile and the discard pile as the step with the log
\* call succeeding does.  For a number or modifier card that is: the card
\* on the discard pile and its effect on the player, or, where the step
\* ends at the SecondChance question, everything as it was; for an action
\* card: the card gone to the piles.
C30_LogFailureHarmless ==
  [][(rpc # "crashed" /\ rpc' = "crashed") =>
       LET f == Top
       IN IF f.card.type = "action"
            THEN << deck', discardPile' >> # << deck, discardPile >>
          ELSE \/ /\ f.pc = "start" /\ f.card.type = "number"
                  /\ hasNumber(players[f.player], f.card.value)
                  /\ players[f.player].secondChance /\ mode = "interactive"
                  /\ UNCHANGED << players, deck, discardPile >>
               \/ /\ players' \in AppliedPlayers(f)
                  /\ discardPile' = discard(discardPile, f.card)
                  /\ deck' = deck]_vars

\* ---- C31
\* C31: whenever no applyCardToPlayer call is in progress, the draw pile and
\* the discard pile together hold the cards the game was built with: as
\* many cards as the draw pile held at construction, none created,
\* duplicated or lost.
C31_CardsConserved ==
  stack = <<>> => Len(deck) + Len(discardPile) = DeckLen

\* ---- C32
\* The step about to be taken calls drawCard: initialDeal for an active
\* player, a hit of the auto strategy or of the answer, the extra draw of a
\* SecondChance that is kept, a draw of the FlipThree loop.
DrawAttempt ==
  \/ /\ rpc = "deal" /\ stack = <<>>
     /\ dealIdx <= EXPECTED_PLAYERS /\ players[dealIdx].active
  \/ /\ rpc = "turn" /\ stack = <<>> /\ mode # "interactive"
     /\ turnIdx <= Len(activePlayers)
     /\ players[activePlayers[turnIdx]].active
     /\ ~autoStays(players[activePlayers[turnIdx]], autoTarget)
  \/ /\ rpc = "askHit" /\ stack = <<>>
     /\ ans' \notin {"a", "s"}
  \/ /\ InApply("start")
     /\ Top.card = Act("SecondChance") /\ ~players[Top.player].secondChance
  \/ /\ InApply("flipLoop")
     /\ flipThreeContinues(Top.i, players[Top.target])

\* C32: every draw the engine makes returns a card: the draw pile and the
\* discard pile are not both empty when drawCard is called, and no player
\* is made inactive because no card is left.
C32_EveryDrawReturnsACard ==
  [][/\ DrawAttempt => (draws' = draws + 1 /\ (deck # <<>> \/ discardPile # <<>>
                                                \/ InApply("start")))
     /\ event'.tag # "DECK"]_vars

\* More cards have been drawn than the draw pile held at construction: a
\* draw found the draw pile empty and recycled the discard pile.
C32_Witness ==
  /\ draws > DeckLen
  /\ deck = <<>>
  /\ stack # <<>> /\ Top.pc = "start"

\* ---- C33
\* C33: in every state the numbers of each player are pairwise distinct and
\* at most seven.
C33_NumbersDistinctAtMostSeven ==
  \A p \in Players :
    /\ \A i, j \in DOMAIN players[p].numbers :
         players[p].numbers[i] = players[p].numbers[j] => i = j
    /\ Len(players[p].numbers) <= Flip7Count

\* A player holds seven numbers and the next card of the draw pile is a
\* number the player does not hold.
C33_Witness ==
  \E p \in Players :
    /\ Len(players[p].numbers) = Flip7Count
    /\ deck # <<>> /\ Last(deck).type = "number"
    /\ ~hasNumber(players[p], Last(deck).value)

\* ---- C34
\* Player p has stayed in the round being played: inactive, not eliminated.
Stayed(p) ==
  /\ rpc \notin {"playRound", "roundEnd", "gameOver"}
  /\ ~players[p].active /\ ~players[p].eliminated

\* C34: a Stay changes nothing but the active flag of the player who stays;
\* from then on no step before scoring changes anything of that player, and
\* scoring gives the player the round score of the state the player
\* stayed with.
C34_StayFreezesTheHand ==
  [][/\ event'.tag = "STAY" =>
          /\ players[event'.who].active
          /\ players' = [players EXCEPT ![event'.who].active = FALSE]
     /\ \A p \in Players :
          Stayed(p) =>
            IF rpc = "scoring"
              THEN roundScore'[p] = computeRoundScore(players[p], FALSE)
            ELSE players'[p] = players[p]]_vars

\* A Freeze has just hit a player while the other player, who holds
\* numbers, had stayed.
C34_Witness ==
  /\ event.tag = "FREEZE"
  /\ \E p \in Players : Stayed(p) /\ players[p].numbers # <<>> /\ p # event.who

C37_OneMatchingAnswer ==
  [][/\ (promise.state = "none" /\ promise'.state # "none") =>
          \A c \in clients' :
            c.pendingResolve => (c.name = promise'.who /\ promise'.state = "pending"
                                 /\ ans' = "")
     /\ (promise.state = "none" /\ promise'.state = "pending") =>
          clients' = (clients \ {Client(promise'.who, FALSE)})
                       \cup {Client(promise'.who, TRUE)}
     /\ (promise.state = "pending" /\ promise'.state # "pending") =>
          /\ promise' = Promise("resolved", promise.who)
          /\ event' = Ev("input", promise.who)
          /\ Client(promise.who, TRUE) \in clients
          /\ \A c \in clients' : ~c.pendingResolve
     /\ promise.state = "resolved" => ans' = ans
     /\ (event'.tag = "dropped" /\ event' # event) =>
          /\ Client(event'.who, FALSE) \in clients
          /\ UNCHANGED << clients, promise, ans >>]_vars

\* An input of the client of player 1 was dropped, and the prompt that
\* followed it is pending, unanswered.
C37_Witness ==
  /\ event = Ev("dropped", 1)
  /\ promise = Promise("pending", 1)
  /\ ans = ""

\* ---- C38
\* C38: when the player who has to choose the target of a Freeze or of a
\* FlipThree has no client, the default answer ends the selection: the step
\* that takes it does not leave the call at the same question with the
\* players, the piles and the clients as they were.
C38_DefaultEndsSelection ==
  [][((InApply("freezeTarget") \/ InApply("flipTarget")) /\ AskedAbsent) =>
       << stack, players, deck, discardPile, clients >>'
         # << stack, players, deck, discardPile, clients >>]_vars

====
